---- MODULE Spec2Model ----
(***************************************************************************)
(* A model of ct-aes: the AES round algebra (aes/ops.rs), the reference    *)
(* byte-oriented backend (aes/simple.rs), the bit-sliced backend           *)
(* (bitslice/*.rs) and the BlockCipher entry points (aes/key.rs) driven by *)
(* the caller loop of tests/openssl.rs.                                    *)
(*                                                                         *)
(* Representation.  A u8 is an integer 0..255.  A machine word of w bits   *)
(* (u16, u32, u64) is the set of its 1-bit positions, a subset of 0..w-1,  *)
(* so that &, |, ^, !, <<, >> and rotate_right keep their width exactly.   *)
(* A [u8; n] or a slice is a sequence; Rust index i is TLA+ index i + 1.   *)
(***************************************************************************)
EXTENDS Integers, Sequences, FiniteSets, TLC

(* ------------------------------ bounds -------------------------------- *)
\* Keys and buffers are drawn from patterns 0..MaxSeed.
MaxSeed == 1
\* Buffer lengths are 0..MaxHalfBatches half batches of the backend.
MaxHalfBatches == 4
\* Raw key slices have 8 * (0..MaxKeyUnits) bytes.
MaxKeyUnits == 5
\* Up to MaxOps primitives are applied in a row to a batch on its own.
MaxOps == 2

(* --------------------------- u8 arithmetic ---------------------------- *)
BLOCK_LEN == 16

\* [F(0), ..., F(n-1)] as a sequence.
Tabulate(F(_), n) == SubSeq([i \in 1..n |-> F(i - 1)], 1, n)

\* "let x = e; rest": e is evaluated once, then rest on its value.
Let(x, rest(_)) == IF x = x THEN rest(x) ELSE rest(x)

\* The set of 1-bit positions of the byte b.
BitsOf(b) == {k \in 0..7 : (b \div (2^k)) % 2 = 1}

\* The byte whose 1-bit positions are s.
ByteOf(s) ==
    (IF 0 \in s THEN 1 ELSE 0) + (IF 1 \in s THEN 2 ELSE 0)
  + (IF 2 \in s THEN 4 ELSE 0) + (IF 3 \in s THEN 8 ELSE 0)
  + (IF 4 \in s THEN 16 ELSE 0) + (IF 5 \in s THEN 32 ELSE 0)
  + (IF 6 \in s THEN 64 ELSE 0) + (IF 7 \in s THEN 128 ELSE 0)

\* a ^ b on words (sets of bit positions).
WXor(a, b) == (a \ b) \cup (b \ a)

\* a ^ b for all u8 a and b, computed once.
XorTab == Tabulate(LAMBDA a : Tabulate(LAMBDA b : ByteOf(WXor(BitsOf(a), BitsOf(b))), 256), 256)

\* a ^ b on u8.
Xor(a, b) == XorTab[a + 1][b + 1]

(* ----------------------- gf256: Element (lib.rs) ----------------------- *)
\* The loop of MulAssign::mul_assign, n iterations left.
RECURSIVE mul_loop(_, _, _, _)
mul_loop(lhs, rhs, ret, n) ==
    IF n = 0 THEN ret
    ELSE LET ret1 == IF rhs % 2 # 0 THEN Xor(ret, lhs) ELSE ret
             will_overflow == lhs >= 128
             shifted == (lhs * 2) % 256
             lhs1 == IF will_overflow THEN Xor(shifted, 27) ELSE shifted
         IN mul_loop(lhs1, rhs \div 2, ret1, n - 1)

\* The loop without the reduction on overflow.
RECURSIVE mul_loop_unreduced(_, _, _, _)
mul_loop_unreduced(lhs, rhs, ret, n) ==
    IF n = 0 THEN ret
    ELSE mul_loop_unreduced((lhs * 2) % 256, rhs \div 2,
                            IF rhs % 2 # 0 THEN Xor(ret, lhs) ELSE ret, n - 1)

Element_mul_unreduced(a, b) == mul_loop_unreduced(a, b, 0, 8)

\* Element(a) * Element(b)
Element_mul(a, b) == mul_loop(a, b, 0, 8)

\* Element(a) + Element(b)
Element_add(a, b) == Xor(a, b)

(* --------------------------- gf256: inv.rs ----------------------------- *)
\* (lo..=hi).map(Element).find(|&b| a * b == Element(1)): the first such b
\* of the range, searched in its lower half and then in its upper half.
RECURSIVE find(_, _, _)
find(a, lo, hi) ==
    IF lo = hi
    THEN IF Element_mul(a, lo) = 1 THEN [some |-> TRUE, value |-> lo]
                                   ELSE [some |-> FALSE, value |-> 0]
    ELSE Let(find(a, lo, (lo + hi) \div 2), LAMBDA first :
             IF first.some THEN first ELSE find(a, (lo + hi) \div 2 + 1, hi))

\* find_inverse: the first b of 0..=255 with a * b == Element(1), if any
find_inverse(a) == find(a, 0, 255)

\* inverse_table: Element(0), then the inverses of 1..=255; expect() panics
\* on an element that has none.
inverse_table ==
    Let(Tabulate(LAMBDA i : find_inverse(i + 1), 255), LAMBDA inv :
        IF \E i \in 1..255 : ~inv[i].some
        THEN [outcome |-> "panicked", ret |-> << >>]
        ELSE [outcome |-> "returned",
              ret |-> <<0>> \o Tabulate(LAMBDA i : inv[i + 1].value, 255)])

(* ------------------- aes: S-box tables (generated) -------------------- *)
SBOX ==
  <<
     99, 124, 119, 123, 242, 107, 111, 197,  48,   1, 103,  43, 254, 215, 171, 118,
    202, 130, 201, 125, 250,  89,  71, 240, 173, 212, 162, 175, 156, 164, 114, 192,
    183, 253, 147,  38,  54,  63, 247, 204,  52, 165, 229, 241, 113, 216,  49,  21,
      4, 199,  35, 195,  24, 150,   5, 154,   7,  18, 128, 226, 235,  39, 178, 117,
      9, 131,  44,  26,  27, 110,  90, 160,  82,  59, 214, 179,  41, 227,  47, 132,
     83, 209,   0, 237,  32, 252, 177,  91, 106, 203, 190,  57,  74,  76,  88, 207,
    208, 239, 170, 251,  67,  77,  51, 133,  69, 249,   2, 127,  80,  60, 159, 168,
     81, 163,  64, 143, 146, 157,  56, 245, 188, 182, 218,  33,  16, 255, 243, 210,
    205,  12,  19, 236,  95, 151,  68,  23, 196, 167, 126,  61, 100,  93,  25, 115,
     96, 129,  79, 220,  34,  42, 144, 136,  70, 238, 184,  20, 222,  94,  11, 219,
    224,  50,  58,  10,  73,   6,  36,  92, 194, 211, 172,  98, 145, 149, 228, 121,
    231, 200,  55, 109, 141, 213,  78, 169, 108,  86, 244, 234, 101, 122, 174,   8,
    186, 120,  37,  46,  28, 166, 180, 198, 232, 221, 116,  31,  75, 189, 139, 138,
    112,  62, 181, 102,  72,   3, 246,  14,  97,  53,  87, 185, 134, 193,  29, 158,
    225, 248, 152,  17, 105, 217, 142, 148, 155,  30, 135, 233, 206,  85,  40, 223,
    140, 161, 137,  13, 191, 230,  66, 104,  65, 153,  45,  15, 176,  84, 187,  22 >>

INV_SBOX ==
  <<
     82,   9, 106, 213,  48,  54, 165,  56, 191,  64, 163, 158, 129, 243, 215, 251,
    124, 227,  57, 130, 155,  47, 255, 135,  52, 142,  67,  68, 196, 222, 233, 203,
     84, 123, 148,  50, 166, 194,  35,  61, 238,  76, 149,  11,  66, 250, 195,  78,
      8,  46, 161, 102,  40, 217,  36, 178, 118,  91, 162,  73, 109, 139, 209,  37,
    114, 248, 246, 100, 134, 104, 152,  22, 212, 164,  92, 204,  93, 101, 182, 146,
    108, 112,  72,  80, 253, 237, 185, 218,  94,  21,  70,  87, 167, 141, 157, 132,
    144, 216, 171,   0, 140, 188, 211,  10, 247, 228,  88,   5, 184, 179,  69,   6,
    208,  44,  30, 143, 202,  63,  15,   2, 193, 175, 189,   3,   1,  19, 138, 107,
     58, 145,  17,  65,  79, 103, 220, 234, 151, 242, 207, 206, 240, 180, 230, 115,
    150, 172, 116,  34, 231, 173,  53, 133, 226, 249,  55, 232,  28, 117, 223, 110,
     71, 241,  26, 113,  29,  41, 197, 137, 111, 183,  98,  14, 170,  24, 190,  27,
    252,  86,  62,  75, 198, 210, 121,  32, 154, 219, 192, 254, 120, 205,  90, 244,
     31, 221, 168,  51, 136,   7, 199,  49, 177,  18,  16,  89,  39, 128, 236,  95,
     96,  81, 127, 169,  25, 181,  74,  13,  45, 229, 122, 159, 147, 201, 156, 239,
    160, 224,  59,  77, 174,  42, 245, 176, 200, 235, 187,  60, 131,  83, 153,  97,
     23,  43,   4, 126, 186, 119, 214,  38, 225, 105,  20,  99,  85,  33,  12, 125 >>

(* --------------------------- aes/block.rs ----------------------------- *)
\* idx(row, col)
idx(row, col) == row + 4 * col

(* ------------------ aes/simple.rs: the reference Block ----------------- *)
Block_sub_bytes(block) == Tabulate(LAMBDA i : SBOX[block[i + 1] + 1], BLOCK_LEN)

Block_inv_sub_bytes(block) == Tabulate(LAMBDA i : INV_SBOX[block[i + 1] + 1], BLOCK_LEN)

\* self.0.swap(i, j)
swap(b, i, j) == [b EXCEPT ![i + 1] = b[j + 1], ![j + 1] = b[i + 1]]

\* The swaps of shift_rows, in program order.
SHIFT_ROWS_SWAPS ==
    << <<1, 5>>, <<5, 9>>, <<9, 13>>, <<2, 10>>, <<6, 14>>, <<11, 15>>, <<7, 11>>, <<3, 7>> >>

\* reverse!
reverse(s) == Tabulate(LAMBDA i : s[Len(s) - i], Len(s))

RECURSIVE apply_swaps(_, _, _)
apply_swaps(b, swaps, k) ==
    IF k > Len(swaps) THEN b
    ELSE apply_swaps(swap(b, swaps[k][1], swaps[k][2]), swaps, k + 1)

Block_shift_rows(block) == apply_swaps(block, SHIFT_ROWS_SWAPS, 1)

\* Block::transpose: the swaps of (row, col) with (col, row), col > row
TRANSPOSE_SWAPS ==
    << <<idx(0, 1), idx(1, 0)>>, <<idx(0, 2), idx(2, 0)>>, <<idx(0, 3), idx(3, 0)>>,
       <<idx(1, 2), idx(2, 1)>>, <<idx(1, 3), idx(3, 1)>>, <<idx(2, 3), idx(3, 2)>> >>

transpose(block) == apply_swaps(block, TRANSPOSE_SWAPS, 1)

\* Block::from_row_major
from_row_major(bytes) == transpose(bytes)

\* The swaps in program order, where the inverse needs them reversed.
unreversed_shift_rows(block) == apply_swaps(block, SHIFT_ROWS_SWAPS, 1)

Block_inv_shift_rows(block) == apply_swaps(block, reverse(SHIFT_ROWS_SWAPS), 1)

\* The polynomial of mix_columns / inv_mix_columns with coefficients k.
Block_polyval(block, k) ==
    LET elem(r, c) == block[idx(r % 4, c) + 1]
        el(row, col) ==
            Element_add(Element_add(Element_add(
                Element_mul(k[1], elem(row, col)),
                Element_mul(k[2], elem(row + 1, col))),
                Element_mul(k[3], elem(row + 2, col))),
                Element_mul(k[4], elem(row + 3, col)))
    IN Tabulate(LAMBDA i : el(i % 4, i \div 4), BLOCK_LEN)

Block_mix_columns(block) == Block_polyval(block, <<2, 3, 1, 1>>)

\* The inverse polynomial with the coefficients of the forward one.
inv_mix_columns_2311(block) == Block_polyval(block, <<2, 3, 1, 1>>)

Block_inv_mix_columns(block) == Block_polyval(block, <<14, 11, 13, 9>>)

\* What an execution does besides arithmetic on values it already holds is
\* recorded as a sequence of events: <<"index", array, i>> for an array
\* access at i, <<"swap", i, j>> for slice::swap, <<"branch", taken>> for a
\* conditional, <<"shl", n>>, <<"shr", n>>, <<"ror", n>> for a shift or a
\* rotation by n, <<"gates", n>> for n straight-line boolean operations,
\* <<"mul", i, b>> for a load at i whose value b Element's mul_assign then
\* branches on bit by bit.
\* SubBytes for Block: one load SBOX[*byte as usize] per byte.
Block_sub_bytes_ops(block) ==
    Tabulate(LAMBDA i : <<"index", "SBOX", block[i + 1]>>, BLOCK_LEN)

Block_inv_sub_bytes_ops(block) ==
    Tabulate(LAMBDA i : <<"index", "INV_SBOX", block[i + 1]>>, BLOCK_LEN)

Block_shift_rows_ops(swaps) ==
    Tabulate(LAMBDA i : <<"swap", swaps[i + 1][1], swaps[i + 1][2]>>, Len(swaps))

\* mix_columns for Block: per output byte four loads self[(r % 4, c)], each
\* multiplied by a constant; mul_assign branches on rhs & 1, rhs the loaded byte.
Block_polyval_ops(block) ==
    Tabulate(LAMBDA j :
        LET i == j \div 4
            t == j % 4
            at == idx(((i % 4) + t) % 4, i \div 4)
        IN <<"mul", at, block[at + 1]>>, 4 * BLOCK_LEN)

Block_add_round_key(block, rk) == Tabulate(LAMBDA i : Xor(block[i + 1], rk[i + 1]), BLOCK_LEN)

Block_default == Tabulate(LAMBDA i : 0, BLOCK_LEN)

(* ----------------------------- aes/key.rs ----------------------------- *)
ROUND_CONSTANTS == <<1, 2, 4, 8, 16, 32, 64, 128, 27, 54>>

\* A constructor without the length check: whatever it is given is a
\* 128-bit key.
from_bytes_unchecked(key) == [variant |-> "Aes128", bytes |-> key]

\* Key::from_bytes: the tagged variant, or Err(()).
from_bytes(key) ==
    CASE Len(key) = 16 -> [variant |-> "Aes128", bytes |-> key]
      [] Len(key) = 24 -> [variant |-> "Aes192", bytes |-> key]
      [] Len(key) = 32 -> [variant |-> "Aes256", bytes |-> key]
      [] OTHER -> [variant |-> "Err", bytes |-> << >>]

rounds(key) ==
    CASE key.variant = "Aes128" -> 10
      [] key.variant = "Aes192" -> 12
      [] key.variant = "Aes256" -> 14

num_round_keys(key) == rounds(key) + 1

\* Key::as_slice
as_slice(key) == key.bytes

\* Key::len
len(key) == Len(as_slice(key))

\* A schedule with one round key too many.
fill_with_one_more(key, rk) ==
    CASE key.variant = "Aes128" -> Tabulate(LAMBDA i : rk, 12)
      [] key.variant = "Aes192" -> Tabulate(LAMBDA i : rk, 14)
      [] key.variant = "Aes256" -> Tabulate(LAMBDA i : rk, 16)

\* Schedule::fill_with: 11, 13 or 15 copies of rk.
fill_with(key, rk) ==
    CASE key.variant = "Aes128" -> Tabulate(LAMBDA i : rk, 11)
      [] key.variant = "Aes192" -> Tabulate(LAMBDA i : rk, 13)
      [] key.variant = "Aes256" -> Tabulate(LAMBDA i : rk, 15)

\* key.as_slice().chunks(BLOCK_LEN): chunk number i (from 0).
chunk(key, i) ==
    SubSeq(as_slice(key), BLOCK_LEN * i + 1,
           IF BLOCK_LEN * (i + 1) < len(key) THEN BLOCK_LEN * (i + 1) ELSE len(key))

num_chunks(key) == (len(key) + BLOCK_LEN - 1) \div BLOCK_LEN

(* ------------- aes/simple.rs: key expansion of the reference ----------- *)
\* The target's byte order; u32::to_be swaps bytes on a little-endian target.
TARGET_LITTLE_ENDIAN == TRUE

\* A u32 is the sequence of its four bytes, most significant first.
from_be_bytes(b) == b

to_be_bytes(x) == x

swap_bytes(x) == <<x[4], x[3], x[2], x[1]>>

\* u32::to_be as it is on a big-endian target, whatever the target.
to_be_unswapped(x) == x

to_be(x) == IF TARGET_LITTLE_ENDIAN THEN swap_bytes(x) ELSE x

\* u8 as u32
u32_from_u8(b) == <<0, 0, 0, b>>

rotate_left_8(x) == <<x[2], x[3], x[4], x[1]>>

u32_xor(x, y) == <<Xor(x[1], y[1]), Xor(x[2], y[2]), Xor(x[3], y[3]), Xor(x[4], y[4])>>

Block_word(sched, n) ==
    LET rk == sched[(n \div 4) + 1]
        i == 4 * (n % 4)
    IN from_be_bytes(SubSeq(rk, i + 1, i + 4))

Block_set_word(sched, n, word) ==
    LET rk == sched[(n \div 4) + 1]
        i == 4 * (n % 4)
        bytes == to_be_bytes(word)
    IN [sched EXCEPT ![(n \div 4) + 1] =
            SubSeq(rk, 1, i) \o bytes \o SubSeq(rk, i + 5, BLOCK_LEN)]

sub_word(word) == <<SBOX[word[1] + 1], SBOX[word[2] + 1], SBOX[word[3] + 1], SBOX[word[4] + 1]>>

\* "0..N": the raw key is copied into the first round keys.
RECURSIVE Block_copy_key(_, _, _)
Block_copy_key(rks, key, i) ==
    IF i >= num_chunks(key) THEN rks
    ELSE LET c == chunk(key, i)
             rk == c \o SubSeq(rks[i + 1], Len(c) + 1, BLOCK_LEN)
         IN Block_copy_key([rks EXCEPT ![i + 1] = rk], key, i + 1)

\* "N..(4*rk)": the loop body for word i.
Block_expand_step(sched, key, i) ==
    LET n == len(key) \div 4
    IN Let(Block_word(sched, i - 1), LAMBDA a0 :
           Block_set_word(sched, i,
               u32_xor(CASE i % n = 0 ->
                            u32_xor(sub_word(rotate_left_8(a0)),
                                    to_be(u32_from_u8(ROUND_CONSTANTS[(i \div n) - 1 + 1])))
                         [] i % n = 4 /\ n > 6 -> sub_word(a0)
                         [] OTHER -> a0,
                       Block_word(sched, i - n))))

\* for i in N..(4*rk), here the iterations lo..hi (the first half, then the
\* second half on the schedule the first half left)
RECURSIVE Block_expand(_, _, _, _)
Block_expand(sched, key, lo, hi) ==
    IF lo > hi THEN sched
    ELSE IF lo = hi THEN Block_expand_step(sched, key, lo)
    ELSE Let(Block_expand(sched, key, lo, (lo + hi) \div 2),
             LAMBDA half : Block_expand(half, key, ((lo + hi) \div 2) + 1, hi))

\* impl From<Key> for Schedule<Block>
Block_Schedule_from(key) ==
    Block_expand(Block_copy_key(fill_with(key, Block_default), key, 0), key,
                 len(key) \div 4, 4 * num_round_keys(key) - 1)

(* ------------------- machine words: u16, u32, u64 --------------------- *)
WAnd(a, b) == a \cap b

WOr(a, b) == a \cup b

\* !a on a word of w bits
WNot(a, w) == (0..(w - 1)) \ a

\* a << n on a word of w bits: the bits shifted out are lost
shl(a, n, w) == {i + n : i \in {j \in a : j + n < w}}

\* a >> n
shr(a, n) == {i - n : i \in {j \in a : j >= n}}

\* a.rotate_right(n) on a word of w bits
rotate_right(a, n, w) == {(i + w - (n % w)) % w : i \in a}

\* "x as $T": a u64 truncated to w bits
truncate(a, w) == {i \in a : i < w}

(* ------------------------------- util.rs ------------------------------ *)
\* bitmask(kernel, shift): the u64 holding kernel repeated every shift bits.
bitmask(kernel, shift) ==
    UNION {shl(kernel, (mul * shift) % 64, 64) : mul \in 0..63}

(* -------------------------- bitslice/bitslice.rs ----------------------- *)
\* Bitslice::<W>::num_bytes, for W of w bits (mem::size_of::<W>() = w / 8)
num_bytes(w) == 8 * (w \div 8)

num_blocks(w) == num_bytes(w) \div BLOCK_LEN

Bitslice_default == << {}, {}, {}, {}, {}, {}, {}, {} >>

\* Bitslice ^ Bitslice, which is also AddRoundKey::add_round_key
Bitslice_bitxor(a, b) ==
    << WXor(a[1], b[1]), WXor(a[2], b[2]), WXor(a[3], b[3]), WXor(a[4], b[4]),
       WXor(a[5], b[5]), WXor(a[6], b[6]), WXor(a[7], b[7]), WXor(a[8], b[8]) >>

Bitslice_add_round_key(self, rk) == Bitslice_bitxor(self, rk)

\* The index pairs of apply_stride_1, whatever the stride.
apply_pairs_adjacent(stride) == << <<0, 1>>, <<2, 3>>, <<4, 5>>, <<6, 7>> >>

\* apply_stride_1, apply_stride_2, apply_stride_4: the index pairs
apply_pairs(stride) ==
    CASE stride = 1 -> << <<0, 1>>, <<2, 3>>, <<4, 5>>, <<6, 7>> >>
      [] stride = 2 -> << <<0, 2>>, <<1, 3>>, <<4, 6>>, <<5, 7>> >>
      [] stride = 4 -> << <<0, 4>>, <<1, 5>>, <<2, 6>>, <<3, 7>> >>

(* -------------------------- bitslice/primitive.rs ---------------------- *)
SWAP_MOVE_MASK ==
    << bitmask({0, 2, 4, 6}, 8),
       bitmask({0, 1, 4, 5}, 8),
       bitmask({0, 1, 2, 3}, 8),
       bitmask((0..7) \cup (16..23), 32),
       bitmask(0..15, 32),
       0..31 >>

\* SwapMove::swap_move(lo, hi, log2_n) on words of w bits: <<lo, hi>> afterwards
swap_move_unmasked(lo, hi, log2_n, w) ==
    LET n == 2^log2_n
    IN Let(truncate(WXor(shr(lo, n), hi), w),
           LAMBDA tmp : << WXor(lo, shl(tmp, n, w)), WXor(hi, tmp) >>)

swap_move(lo, hi, log2_n, w) ==
    LET n == 2^log2_n
    IN Let(WAnd(WXor(shr(lo, n), hi), truncate(SWAP_MOVE_MASK[log2_n + 1], w)),
           LAMBDA tmp : << WXor(lo, shl(tmp, n, w)), WXor(hi, tmp) >>)

\* apply_stride_k(bs, |a, b| swap_move(a, b, log2_n)), first pair number k
RECURSIVE apply_stride(_, _, _, _, _)
apply_stride(bs, stride, log2_n, w, k) ==
    IF k > 4 THEN bs
    ELSE LET i == apply_pairs(stride)[k][1] + 1
             j == apply_pairs(stride)[k][2] + 1
         IN Let(swap_move(bs[i], bs[j], log2_n, w), LAMBDA r :
                apply_stride([bs EXCEPT ![i] = r[1], ![j] = r[2]], stride, log2_n, w, k + 1))

\* The statements of to_bitslice_order, in program order:
\* <<"sm", stride, log2_n>> is apply_stride_<stride> with swap_move(.., log2_n),
\* <<"swap", i, j>> is bs.swap(i, j).
to_bitslice_order_steps(w) ==
    CASE w = 64 -> << <<"sm", 1, 3>>, <<"sm", 1, 4>>, <<"sm", 1, 5>>,
                      <<"swap", 1, 4>>, <<"swap", 3, 6>>, <<"swap", 1, 2>>, <<"swap", 5, 6>>,
                      <<"sm", 4, 2>>, <<"sm", 2, 1>>, <<"sm", 1, 0>> >>
      [] w = 32 -> << <<"swap", 2, 4>>, <<"swap", 3, 5>>, <<"swap", 1, 2>>, <<"swap", 5, 6>>,
                      <<"sm", 1, 0>>, <<"sm", 2, 1>>, <<"sm", 4, 2>> >>
      [] w = 16 -> << <<"sm", 1, 3>>,
                      <<"swap", 1, 2>>, <<"swap", 5, 6>>, <<"swap", 2, 4>>, <<"swap", 3, 5>>,
                      <<"sm", 4, 2>>, <<"sm", 2, 1>>, <<"sm", 1, 0>> >>

RECURSIVE run_steps(_, _, _, _)
run_steps(bs, steps, w, k) ==
    IF k > Len(steps) THEN bs
    ELSE LET st == steps[k]
         IN Let(IF st[1] = "sm" THEN apply_stride(bs, st[2], st[3], w, 1)
                ELSE swap(bs, st[2], st[3]),
                LAMBDA next : run_steps(next, steps, w, k + 1))

to_bitslice_order(bs, w) == run_steps(bs, to_bitslice_order_steps(w), w, 1)

\* The steps of to_bitslice_order once more, in the same order.
to_byte_order_unreversed(bs, w) == run_steps(bs, to_bitslice_order_steps(w), w, 1)

\* the inverse defined by define_function_of_involutions_with_inverse!
to_byte_order(bs, w) == run_steps(bs, reverse(to_bitslice_order_steps(w)), w, 1)

\* The WORD_LEN bytes starting at bytes[at] read most significant first.
from_bytes_reversed(bytes, at, w) ==
    UNION {{8 * ((w \div 8) - 1 - j) + k : k \in BitsOf(bytes[at + j + 1])} : j \in 0..((w \div 8) - 1)}

\* $T::from_le_bytes of the WORD_LEN bytes starting at bytes[at]
from_le_bytes(bytes, at, w) ==
    UNION {{8 * j + k : k \in BitsOf(bytes[at + j + 1])} : j \in 0..((w \div 8) - 1)}

\* impl From<[u8; $len]> for Bitslice<$T>
Bitslice_from_bytes(bytes, w) ==
    to_bitslice_order(Tabulate(LAMBDA i : from_le_bytes(bytes, i * (w \div 8), w), 8), w)

\* impl From<Bitslice<$T>> for [u8; $len]
Bitslice_into_bytes(self, w) ==
    LET WORD_LEN == w \div 8
    IN Let(to_byte_order(self, w), LAMBDA words :
           Tabulate(LAMBDA n : ByteOf({k \in 0..7 :
                                 (8 * (n % WORD_LEN) + k) \in words[(n \div WORD_LEN) + 1]}),
                    num_bytes(w)))

\* Bitslice::from_slice: a short slice is padded with zeroes, a long one cut
Bitslice_from_slice(s, w) ==
    Bitslice_from_bytes(
        Tabulate(LAMBDA i : IF i < Len(s) THEN s[i + 1] ELSE 0, num_bytes(w)), w)

\* A conversion that never fails: from_slice in the place of try_from.
Bitslice_try_from_slice(bytes, w) ==
    [ok |-> TRUE, err |-> 0, value |-> Bitslice_from_slice(bytes, w)]

\* impl TryFrom<&[u8]> for Bitslice<$T>
Bitslice_try_from(bytes, w) ==
    IF Len(bytes) # num_bytes(w)
    THEN [ok |-> FALSE, err |-> num_bytes(w), value |-> Bitslice_default]
    ELSE [ok |-> TRUE, err |-> 0, value |-> Bitslice_from_bytes(bytes, w)]

\* to_bitslice_order / to_byte_order: a swap_move reads SWAP_MOVE_MASK[log2_n]
\* and shifts by n = 1 << log2_n, on each of the four pairs; a swap names
\* its two indices.
order_step_ops(st) ==
    IF st[1] = "sm"
    THEN Tabulate(LAMBDA j :
            CASE j % 3 = 0 -> <<"index", "SWAP_MOVE_MASK", st[3]>>
              [] j % 3 = 1 -> <<"shr", 2^st[3]>>
              [] j % 3 = 2 -> <<"shl", 2^st[3]>>, 4 * 3)
    ELSE << <<"swap", st[2], st[3]>> >>

RECURSIVE order_ops(_, _)
order_ops(steps, k) ==
    IF k > Len(steps) THEN << >> ELSE order_step_ops(steps[k]) \o order_ops(steps, k + 1)

\* TryFrom<&[u8]> for Bitslice<$T>: the length test, then on success the
\* conversion of the bytes.
Bitslice_try_from_ops(bytes, w) ==
    << <<"branch", Len(bytes) # num_bytes(w)>> >>
    \o (IF Len(bytes) # num_bytes(w) THEN << >> ELSE order_ops(to_bitslice_order_steps(w), 1))

\* copy_to_slice: into_bytes, then &bytes[..out.len()]
copy_to_slice_ops(out, w) ==
    order_ops(reverse(to_bitslice_order_steps(w)), 1) \o << <<"index", "bytes", Len(out)>> >>

col_shift(w) == num_blocks(w)

row_shift(w) == 4 * col_shift(w)

\* (1 << num_blocks) - 1
first_byte(w) == 0..(num_blocks(w) - 1)

\* (1 << row_shift) - 1
first_row(w) == 0..(row_shift(w) - 1)

first_col(w) == bitmask(first_byte(w), row_shift(w))

nth_col_mask(n, w) == shl(first_col(w), n * col_shift(w), 64)

\* Bitslice::_shift_rows on one word, for the shifts of rows 1, 2, 3
RECURSIVE shift_rows_word(_, _, _, _, _)
shift_rows_word(word, out, shifts, i, w) ==
    IF i > 3 THEN out
    ELSE LET shift == shifts[i]
             row_mask == truncate(shl(first_row(w), i * row_shift(w), 64), w)
             row == WAnd(word, row_mask)
             right == shr(row, shift * col_shift(w))
             left == shl(row, (4 - shift) * col_shift(w), w)
         IN shift_rows_word(word, WOr(out, WAnd(WOr(right, left), row_mask)), shifts, i + 1, w)

_shift_rows(self, shifts, w) ==
    Tabulate(LAMBDA n : shift_rows_word(self[n + 1], WAnd(self[n + 1], truncate(first_row(w), w)),
                                        shifts, 1, w), 8)

\* Rows rotated by the shifts of the inverse direction.
backward_shift_rows(self, w) == _shift_rows(self, <<3, 2, 1>>, w)

Bitslice_shift_rows(self, w) == _shift_rows(self, <<1, 2, 3>>, w)

\* The inverse given the shifts of the forward direction.
forward_shift_rows(self, w) == _shift_rows(self, <<1, 2, 3>>, w)

Bitslice_inv_shift_rows(self, w) == _shift_rows(self, <<3, 2, 1>>, w)

\* _shift_rows: per word and per row i the shifts that build the mask, move
\* the row right and move it left.
_shift_rows_ops(shifts, w) ==
    Tabulate(LAMBDA j :
        LET i == ((j \div 3) % 3) + 1
        IN CASE j % 3 = 0 -> <<"shl", i * row_shift(w)>>
             [] j % 3 = 1 -> <<"shr", shifts[i] * col_shift(w)>>
             [] j % 3 = 2 -> <<"shl", (4 - shifts[i]) * col_shift(w)>>, 8 * 3 * 3)

(* --------------------------- gf256/symbolic.rs ------------------------- *)
\* A Multiple is eight BitSets; a BitSet is a subset of 0..7.
Multiple_default == << {}, {}, {}, {}, {}, {}, {}, {} >>

increment(x) == Tabulate(LAMBDA i : WXor(x[i + 1], {i}), 8)

\* double without the reduction mod 11b
double_unreduced(x) == Tabulate(LAMBDA i : x[((i + 7) % 8) + 1], 8)

double(x) ==
    LET r == Tabulate(LAMBDA i : x[((i + 7) % 8) + 1], 8)
    IN [r EXCEPT ![2] = WXor(r[2], r[1]), ![4] = WXor(r[4], r[1]), ![5] = WXor(r[5], r[1])]

RECURSIVE multiplication_table_loop(_, _, _)
multiplication_table_loop(ret, i, up_to) ==
    IF i >= up_to THEN ret
    ELSE IF i + 1 = up_to
    THEN Append(ret, IF i % 2 = 1 THEN increment(ret[(i - 1) + 1]) ELSE double(ret[(i \div 2) + 1]))
    ELSE Let(multiplication_table_loop(ret, i, (i + up_to) \div 2),
             LAMBDA half : multiplication_table_loop(half, (i + up_to) \div 2, up_to))

multiplication_table(up_to) == multiplication_table_loop(<<Multiple_default>>, 1, up_to)

(* ------------- bitslice/gf256.rs: gfmul! and gf_polyval4! -------------- *)
\* The table the generated gfmul! is expanded from.
GFMUL_TABLE == multiplication_table(15)

\* gfmul!(idx; k * b): the XOR of the bit planes of b that coefficient idx of k lists
xor_planes(c, b) ==
    LET p(j) == IF j \in c THEN b[j + 1] ELSE {}
    IN WXor(WXor(WXor(p(0), p(1)), WXor(p(2), p(3))), WXor(WXor(p(4), p(5)), WXor(p(6), p(7))))

gfmul(bit, k, b) == xor_planes(GFMUL_TABLE[k + 1][bit + 1], b)

\* gf_polyval4!(k[1]*b[0] ^ k[2]*b[1] ^ k[3]*b[2] ^ k[4]*b[3])
gf_polyval4(b, k, w) ==
    Tabulate(LAMBDA i :
        WXor(WXor(gfmul(i, k[1], b),
                  rotate_right(gfmul(i, k[2], b), 1 * row_shift(w), w)),
             WXor(rotate_right(gfmul(i, k[3], b), 2 * row_shift(w), w),
                  rotate_right(gfmul(i, k[4], b), 3 * row_shift(w), w))), 8)

\* gf_polyval4!: per output plane the three rotations
gf_polyval4_ops(w) ==
    Tabulate(LAMBDA j : <<"ror", ((j % 3) + 1) * row_shift(w)>>, 8 * 3)

\* The polynomial with its first two coefficients exchanged.
mix_columns_3211(self, w) == gf_polyval4(self, <<3, 2, 1, 1>>, w)

Bitslice_mix_columns(self, w) == gf_polyval4(self, <<2, 3, 1, 1>>, w)

Bitslice_inv_mix_columns(self, w) == gf_polyval4(self, <<14, 11, 13, 9>>, w)

(* ----------------------------- bitslice/sbox.rs ------------------------ *)
\* The circuits are straight-line programs; each "let x = a op b;" is one
\* gate <<x, op, a, b>>, with "xnor" for !(a ^ b).
\* let Bitslice([u7, u6, u5, u4, u3, u2, u1, u0]) = *self
sbox_inputs(self) ==
    [n \in {"u7", "u6", "u5", "u4", "u3", "u2", "u1", "u0"} |->
        CASE n = "u7" -> self[1] [] n = "u6" -> self[2] [] n = "u5" -> self[3]
          [] n = "u4" -> self[4] [] n = "u3" -> self[5] [] n = "u2" -> self[6]
          [] n = "u1" -> self[7] [] n = "u0" -> self[8]]

\* A gate evaluated with the negation of !(a ^ b) left out.
gate_value_unnegated(g, regs, w) ==
    CASE g[2] = "xor" -> WXor(regs[g[3]], regs[g[4]])
      [] g[2] = "and" -> WAnd(regs[g[3]], regs[g[4]])
      [] g[2] = "xnor" -> WXor(regs[g[3]], regs[g[4]])

\* The value a gate computes from the bindings made so far.
gate_value(g, regs, w) ==
    CASE g[2] = "xor" -> WXor(regs[g[3]], regs[g[4]])
      [] g[2] = "and" -> WAnd(regs[g[3]], regs[g[4]])
      [] g[2] = "xnor" -> WNot(WXor(regs[g[3]], regs[g[4]]), w)

\* The let statements number lo..hi, in program order (the first half,
\* then the second half on the bindings the first half made).
RECURSIVE run_gates(_, _, _, _, _)
run_gates(regs, gates, lo, hi, w) ==
    IF lo > hi THEN regs
    ELSE IF lo = hi THEN (gates[lo][1] :> gate_value(gates[lo], regs, w)) @@ regs
    ELSE LET mid == (lo + hi) \div 2
         IN Let(run_gates(regs, gates, lo, mid, w),
                LAMBDA half : run_gates(half, gates, mid + 1, hi, w))

\* The 113 gates of sub_bytes.
SUB_BYTES_GATES ==
    <<
       <<"y14", "xor", "u3", "u5">>, <<"y13", "xor", "u0", "u6">>, <<"y9", "xor", "u0", "u3">>,
       <<"y8", "xor", "u0", "u5">>, <<"t0", "xor", "u1", "u2">>, <<"y1", "xor", "t0", "u7">>,
       <<"y4", "xor", "y1", "u3">>, <<"y12", "xor", "y13", "y14">>, <<"y2", "xor", "y1", "u0">>,
       <<"y5", "xor", "y1", "u6">>, <<"y3", "xor", "y5", "y8">>, <<"t1", "xor", "u4", "y12">>,
       <<"y15", "xor", "t1", "u5">>, <<"y20", "xor", "t1", "u1">>, <<"y6", "xor", "y15", "u7">>,
       <<"y10", "xor", "y15", "t0">>, <<"y11", "xor", "y20", "y9">>, <<"y7", "xor", "u7", "y11">>,
       <<"y17", "xor", "y10", "y11">>, <<"y19", "xor", "y10", "y8">>, <<"y16", "xor", "t0", "y11">>,
       <<"y21", "xor", "y13", "y16">>, <<"y18", "xor", "u0", "y16">>, <<"t2", "and", "y12", "y15">>,
       <<"t3", "and", "y3", "y6">>, <<"t4", "xor", "t3", "t2">>, <<"t5", "and", "y4", "u7">>,
       <<"t6", "xor", "t5", "t2">>, <<"t7", "and", "y13", "y16">>, <<"t8", "and", "y5", "y1">>,
       <<"t9", "xor", "t8", "t7">>, <<"t10", "and", "y2", "y7">>, <<"t11", "xor", "t10", "t7">>,
       <<"t12", "and", "y9", "y11">>, <<"t13", "and", "y14", "y17">>, <<"t14", "xor", "t13", "t12">>,
       <<"t15", "and", "y8", "y10">>, <<"t16", "xor", "t15", "t12">>, <<"t17", "xor", "t4", "y20">>,
       <<"t18", "xor", "t6", "t16">>, <<"t19", "xor", "t9", "t14">>, <<"t20", "xor", "t11", "t16">>,
       <<"t21", "xor", "t17", "t14">>, <<"t22", "xor", "t18", "y19">>, <<"t23", "xor", "t19", "y21">>,
       <<"t24", "xor", "t20", "y18">>, <<"t25", "xor", "t21", "t22">>, <<"t26", "and", "t21", "t23">>,
       <<"t27", "xor", "t24", "t26">>, <<"t28", "and", "t25", "t27">>, <<"t29", "xor", "t28", "t22">>,
       <<"t30", "xor", "t23", "t24">>, <<"t31", "xor", "t22", "t26">>, <<"t32", "and", "t31", "t30">>,
       <<"t33", "xor", "t32", "t24">>, <<"t34", "xor", "t23", "t33">>, <<"t35", "xor", "t27", "t33">>,
       <<"t36", "and", "t24", "t35">>, <<"t37", "xor", "t36", "t34">>, <<"t38", "xor", "t27", "t36">>,
       <<"t39", "and", "t29", "t38">>, <<"t40", "xor", "t25", "t39">>, <<"t41", "xor", "t40", "t37">>,
       <<"t42", "xor", "t29", "t33">>, <<"t43", "xor", "t29", "t40">>, <<"t44", "xor", "t33", "t37">>,
       <<"t45", "xor", "t42", "t41">>, <<"z0", "and", "t44", "y15">>, <<"z1", "and", "t37", "y6">>,
       <<"z2", "and", "t33", "u7">>, <<"z3", "and", "t43", "y16">>, <<"z4", "and", "t40", "y1">>,
       <<"z5", "and", "t29", "y7">>, <<"z6", "and", "t42", "y11">>, <<"z7", "and", "t45", "y17">>,
       <<"z8", "and", "t41", "y10">>, <<"z9", "and", "t44", "y12">>, <<"z10", "and", "t37", "y3">>,
       <<"z11", "and", "t33", "y4">>, <<"z12", "and", "t43", "y13">>, <<"z13", "and", "t40", "y5">>,
       <<"z14", "and", "t29", "y2">>, <<"z15", "and", "t42", "y9">>, <<"z16", "and", "t45", "y14">>,
       <<"z17", "and", "t41", "y8">>, <<"tc1", "xor", "z15", "z16">>, <<"tc2", "xor", "z10", "tc1">>,
       <<"tc3", "xor", "z9", "tc2">>, <<"tc4", "xor", "z0", "z2">>, <<"tc5", "xor", "z1", "z0">>,
       <<"tc6", "xor", "z3", "z4">>, <<"tc7", "xor", "z12", "tc4">>, <<"tc8", "xor", "z7", "tc6">>,
       <<"tc9", "xor", "z8", "tc7">>, <<"tc10", "xor", "tc8", "tc9">>, <<"tc11", "xor", "tc6", "tc5">>,
       <<"tc12", "xor", "z3", "z5">>, <<"tc13", "xor", "z13", "tc1">>, <<"tc14", "xor", "tc4", "tc12">>,
       <<"s3", "xor", "tc3", "tc11">>, <<"tc16", "xor", "z6", "tc8">>, <<"tc17", "xor", "z14", "tc10">>,
       <<"tc18", "xor", "tc13", "tc14">>, <<"s7", "xnor", "z12", "tc18">>, <<"tc20", "xor", "z15", "tc16">>,
       <<"tc21", "xor", "tc2", "z11">>, <<"s0", "xor", "tc3", "tc16">>, <<"s6", "xnor", "tc10", "tc18">>,
       <<"s4", "xor", "tc14", "s3">>, <<"s1", "xnor", "s3", "tc16">>, <<"tc26", "xor", "tc17", "tc20">>,
       <<"s2", "xnor", "tc26", "z17">>, <<"s5", "xor", "tc21", "tc17">>
    >>

\* The 121 gates of inv_sub_bytes.
INV_SUB_BYTES_GATES ==
    <<
       <<"Y0", "xor", "u0", "u3">>, <<"Y2", "xnor", "u1", "u3">>, <<"Y4", "xor", "u0", "Y2">>,
       <<"RTL0", "xor", "u6", "u7">>, <<"Y1", "xor", "Y2", "RTL0">>, <<"Y7", "xnor", "u2", "Y1">>,
       <<"RTL1", "xor", "u3", "u4">>, <<"Y6", "xnor", "u7", "RTL1">>, <<"Y3", "xor", "Y1", "RTL1">>,
       <<"RTL2", "xnor", "u0", "u2">>, <<"Y5", "xor", "u5", "RTL2">>, <<"sa1", "xor", "Y0", "Y2">>,
       <<"sa0", "xor", "Y1", "Y3">>, <<"sb1", "xor", "Y4", "Y6">>, <<"sb0", "xor", "Y5", "Y7">>,
       <<"ah", "xor", "Y0", "Y1">>, <<"al", "xor", "Y2", "Y3">>, <<"aa", "xor", "sa0", "sa1">>,
       <<"bh", "xor", "Y4", "Y5">>, <<"bl", "xor", "Y6", "Y7">>, <<"bb", "xor", "sb0", "sb1">>,
       <<"ab20", "xor", "sa0", "sb0">>, <<"ab22", "xor", "al", "bl">>, <<"ab23", "xor", "Y3", "Y7">>,
       <<"ab21", "xor", "sa1", "sb1">>, <<"abcd1", "and", "ah", "bh">>, <<"rr1", "and", "Y0", "Y4">>,
       <<"ph11", "xor", "ab20", "abcd1">>, <<"t01", "and", "Y1", "Y5">>, <<"ph01", "xor", "t01", "abcd1">>,
       <<"abcd2", "and", "al", "bl">>, <<"r1", "and", "Y2", "Y6">>, <<"pl11", "xor", "ab22", "abcd2">>,
       <<"r2", "and", "Y3", "Y7">>, <<"pl01", "xor", "r2", "abcd2">>, <<"r3", "and", "sa0", "sb0">>,
       <<"vr1", "and", "aa", "bb">>, <<"pr1", "xor", "vr1", "r3">>, <<"wr1", "and", "sa1", "sb1">>,
       <<"qr1", "xor", "wr1", "r3">>, <<"ab0", "xor", "ph11", "rr1">>, <<"ab1", "xor", "ph01", "ab21">>,
       <<"ab2", "xor", "pl11", "r1">>, <<"ab3", "xor", "pl01", "qr1">>, <<"cp1", "xor", "ab0", "pr1">>,
       <<"cp2", "xor", "ab1", "qr1">>, <<"cp3", "xor", "ab2", "pr1">>, <<"cp4", "xor", "ab3", "ab23">>,
       <<"tinv1", "xor", "cp3", "cp4">>, <<"tinv2", "and", "cp3", "cp1">>, <<"tinv3", "xor", "cp2", "tinv2">>,
       <<"tinv4", "xor", "cp1", "cp2">>, <<"tinv5", "xor", "cp4", "tinv2">>, <<"tinv6", "and", "tinv5", "tinv4">>,
       <<"tinv7", "and", "tinv3", "tinv1">>, <<"d2", "xor", "cp4", "tinv7">>, <<"d0", "xor", "cp2", "tinv6">>,
       <<"tinv8", "and", "cp1", "cp4">>, <<"tinv9", "and", "tinv4", "tinv8">>, <<"tinv10", "xor", "tinv4", "tinv2">>,
       <<"d1", "xor", "tinv9", "tinv10">>, <<"tinv11", "and", "cp2", "cp3">>, <<"tinv12", "and", "tinv1", "tinv11">>,
       <<"tinv13", "xor", "tinv1", "tinv2">>, <<"d3", "xor", "tinv12", "tinv13">>, <<"sd1", "xor", "d1", "d3">>,
       <<"sd0", "xor", "d0", "d2">>, <<"dl", "xor", "d0", "d1">>, <<"dh", "xor", "d2", "d3">>,
       <<"dd", "xor", "sd0", "sd1">>, <<"abcd3", "and", "dh", "bh">>, <<"rr2", "and", "d3", "Y4">>,
       <<"t02", "and", "d2", "Y5">>, <<"abcd4", "and", "dl", "bl">>, <<"r4", "and", "d1", "Y6">>,
       <<"r5", "and", "d0", "Y7">>, <<"r6", "and", "sd0", "sb0">>, <<"vr2", "and", "dd", "bb">>,
       <<"wr2", "and", "sd1", "sb1">>, <<"abcd5", "and", "dh", "ah">>, <<"r7", "and", "d3", "Y0">>,
       <<"r8", "and", "d2", "Y1">>, <<"abcd6", "and", "dl", "al">>, <<"r9", "and", "d1", "Y2">>,
       <<"r10", "and", "d0", "Y3">>, <<"r11", "and", "sd0", "sa0">>, <<"vr3", "and", "dd", "aa">>,
       <<"wr3", "and", "sd1", "sa1">>, <<"ph12", "xor", "rr2", "abcd3">>, <<"ph02", "xor", "t02", "abcd3">>,
       <<"pl12", "xor", "r4", "abcd4">>, <<"pl02", "xor", "r5", "abcd4">>, <<"pr2", "xor", "vr2", "r6">>,
       <<"qr2", "xor", "wr2", "r6">>, <<"p0", "xor", "ph12", "pr2">>, <<"p1", "xor", "ph02", "qr2">>,
       <<"p2", "xor", "pl12", "pr2">>, <<"p3", "xor", "pl02", "qr2">>, <<"ph13", "xor", "r7", "abcd5">>,
       <<"ph03", "xor", "r8", "abcd5">>, <<"pl13", "xor", "r9", "abcd6">>, <<"pl03", "xor", "r10", "abcd6">>,
       <<"pr3", "xor", "vr3", "r11">>, <<"qr3", "xor", "wr3", "r11">>, <<"p4", "xor", "ph13", "pr3">>,
       <<"S7", "xor", "ph03", "qr3">>, <<"p6", "xor", "pl13", "pr3">>, <<"p7", "xor", "pl03", "qr3">>,
       <<"S3", "xor", "p1", "p6">>, <<"S6", "xor", "p2", "p6">>, <<"S0", "xor", "p3", "p6">>,
       <<"X11", "xor", "p0", "p2">>, <<"S5", "xor", "S0", "X11">>, <<"X13", "xor", "p4", "p7">>,
       <<"X14", "xor", "X11", "X13">>, <<"S1", "xor", "S3", "X14">>, <<"X16", "xor", "p1", "S7">>,
       <<"S2", "xor", "X14", "X16">>, <<"X18", "xor", "p0", "p4">>, <<"X19", "xor", "S5", "X16">>,
       <<"S4", "xor", "X18", "X19">>
    >>

\* A substitution by table: one load per byte, indexed by the byte the
\* planes hold at that bit position.
table_lookup_ops(self, gates) ==
    Tabulate(LAMBDA i : <<"index", "SBOX", ByteOf({k \in 0..7 : i \in self[k + 1]})>>,
             BLOCK_LEN)

\* sub_bytes and inv_sub_bytes for Bitslice<W>: the planes are taken by a
\* fixed pattern and every let is an &, a ^ or a ! of two planes, whatever
\* the planes hold.
Bitslice_gates_ops(self, gates) == << <<"gates", Len(gates)>> >>

\* SubBytes::sub_bytes for Bitslice<W>
Bitslice_sub_bytes(self, w) ==
    LET regs == run_gates(sbox_inputs(self), SUB_BYTES_GATES, 1, Len(SUB_BYTES_GATES), w)
    IN << regs["s7"], regs["s6"], regs["s5"], regs["s4"], regs["s3"], regs["s2"], regs["s1"], regs["s0"] >>

\* SubBytes::inv_sub_bytes for Bitslice<W>
Bitslice_inv_sub_bytes(self, w) ==
    LET regs == run_gates(sbox_inputs(self), INV_SUB_BYTES_GATES, 1, Len(INV_SUB_BYTES_GATES), w)
    IN << regs["S7"], regs["S6"], regs["S5"], regs["S4"], regs["S3"], regs["S2"], regs["S1"], regs["S0"] >>

(* ------------------ bitslice/bitslice.rs: RoundKey --------------------- *)
\* RoundKey::from_rc
\* The bits of rc spread over the first column instead of the first row.
from_rc_first_col(rc, w) ==
    Tabulate(LAMBDA i : IF i \in BitsOf(rc) THEN truncate(first_col(w), w) ELSE {}, 8)

from_rc(rc, w) ==
    Tabulate(LAMBDA i : IF i \in BitsOf(rc) THEN truncate(first_row(w), w) ELSE {}, 8)

\* RoundKey::from_key: up to 16 bytes of key material copied into every block
from_key(key, w) ==
    Bitslice_from_bytes(
        Tabulate(LAMBDA i : IF i % BLOCK_LEN < Len(key) THEN key[(i % BLOCK_LEN) + 1] ELSE 0,
                 num_bytes(w)), w)

\* RoundKey::sub_word
Bitslice_sub_word(a, w) == Bitslice_sub_bytes(a, w)

\* A word left as it is.
rot_word_none(a, w) == a

\* Each plane rotated right by one column.
rot_word_by_col_shift(a, w) == Tabulate(LAMBDA i : rotate_right(a[i + 1], 1 * col_shift(w), w), 8)

\* RoundKey::rot_word
rot_word(a, w) == Tabulate(LAMBDA i : rotate_right(a[i + 1], 1 * row_shift(w), w), 8)

(* ------------------ bitslice/key.rs: key expansion --------------------- *)
RCON(w) == Tabulate(LAMBDA i : from_rc(ROUND_CONSTANTS[i + 1], w), 10)

\* Schedule::word
Bitslice_word(sched, n, w) ==
    LET rk == sched[(n \div 4) + 1]
        col == n % 4
    IN Tabulate(LAMBDA i : WAnd(shr(rk[i + 1], col * col_shift(w)), first_col(w)), 8)

\* Schedule::set_word
\* set_word without the two masks: the shifted word is ORed into the round key.
set_word_unmasked(sched, n, word, w) ==
    LET rk == sched[(n \div 4) + 1]
        col == n % 4
    IN [sched EXCEPT ![(n \div 4) + 1] =
            Tabulate(LAMBDA i : WOr(rk[i + 1], shl(word[i + 1], col * col_shift(w), w)), 8)]

Bitslice_set_word(sched, n, word, w) ==
    LET rk == sched[(n \div 4) + 1]
        col == n % 4
        mask == nth_col_mask(col, w)
    IN [sched EXCEPT ![(n \div 4) + 1] =
            Tabulate(LAMBDA i : WOr(WAnd(rk[i + 1], WNot(mask, 64)),
                                    WAnd(shl(word[i + 1], col * col_shift(w), w), mask)), 8)]

\* "0..N"
RECURSIVE Bitslice_copy_key(_, _, _, _)
Bitslice_copy_key(round_keys, key, i, w) ==
    IF i >= num_chunks(key) THEN round_keys
    ELSE Bitslice_copy_key([round_keys EXCEPT ![i + 1] = from_key(chunk(key, i), w)], key, i + 1, w)

\* The transformation of the previous word a in the loop body: rotated,
\* substituted and xored with rc at a multiple of n, substituted at the
\* fifth word of a 256-bit key, else kept.
Bitslice_sub_or_keep(a, at_n, at_4, rc, w) ==
    IF at_n \/ at_4
    THEN Let(Bitslice_sub_word(IF at_n THEN rot_word(a, w) ELSE a, w),
             LAMBDA sub : IF at_n THEN Bitslice_bitxor(sub, rc) ELSE sub)
    ELSE a

\* "N..(4*rk)": the loop body for word i
Bitslice_expand_step(sched, key, i, w) ==
    LET n == len(key) \div 4
    IN Let(Bitslice_word(sched, i - 1, w), LAMBDA a0 :
           Bitslice_set_word(sched, i,
               Bitslice_bitxor(
                   Bitslice_sub_or_keep(a0, i % n = 0, i % n = 4 /\ n > 6,
                                        RCON(w)[IF i % n = 0 THEN (i \div n) - 1 + 1 ELSE 1], w),
                   Bitslice_word(sched, i - n, w)), w))

\* for i in N..(4*rk), here the iterations lo..hi (the first half, then the
\* second half on the schedule the first half left)
RECURSIVE Bitslice_expand(_, _, _, _, _)
Bitslice_expand(sched, key, lo, hi, w) ==
    IF lo > hi THEN sched
    ELSE IF lo = hi THEN Bitslice_expand_step(sched, key, lo, w)
    ELSE Let(Bitslice_expand(sched, key, lo, (lo + hi) \div 2, w),
             LAMBDA half : Bitslice_expand(half, key, ((lo + hi) \div 2) + 1, hi, w))

\* impl From<Key> for Schedule<Bitslice>
Bitslice_Schedule_from(key, w) ==
    Bitslice_expand(Bitslice_copy_key(fill_with(key, Bitslice_default), key, 0, w),
                    key, len(key) \div 4, 4 * num_round_keys(key) - 1, w)

\* The events of Schedule::word and Schedule::set_word on word n: the round
\* key n / 4 is indexed and each of the eight planes shifted by the column.
Bitslice_word_ops(n, w) ==
    << <<"index", "round_keys", n \div 4>> >>
    \o Tabulate(LAMBDA i : <<"shr", (n % 4) * col_shift(w)>>, 8)

\* per plane: nth_col_mask(col), w << (col * col_shift), nth_col_mask(col)
Bitslice_set_word_ops(n, w) ==
    << <<"index", "round_keys", n \div 4>> >>
    \o Tabulate(LAMBDA i : <<"shl", (n % 4) * col_shift(w)>>, 8 * 3)

\* The events of the loop body for word i, on the finished schedule sched:
\* the word i - 1 the body reads is the word the schedule keeps.
Bitslice_expand_step_ops(sched, key, i, w) ==
    LET n == len(key) \div 4
        at_n == i % n = 0
        at_4 == i % n = 4 /\ n > 6
    IN Bitslice_word_ops(i - 1, w)
       \o << <<"branch", at_n>>, <<"branch", at_4>> >>
       \o (IF at_n
           THEN Tabulate(LAMBDA j : <<"ror", 1 * row_shift(w)>>, 8)
                \o Bitslice_gates_ops(rot_word(Bitslice_word(sched, i - 1, w), w),
                                      SUB_BYTES_GATES)
                \o << <<"index", "RCON", (i \div n) - 1>> >>
           ELSE IF at_4
                THEN Bitslice_gates_ops(Bitslice_word(sched, i - 1, w), SUB_BYTES_GATES)
                ELSE << >>)
       \o Bitslice_word_ops(i - n, w)
       \o Bitslice_set_word_ops(i, w)

RECURSIVE Bitslice_expand_ops(_, _, _, _, _)
Bitslice_expand_ops(sched, key, lo, hi, w) ==
    IF lo > hi THEN << >>
    ELSE IF lo = hi THEN Bitslice_expand_step_ops(sched, key, lo, w)
    ELSE Bitslice_expand_ops(sched, key, lo, (lo + hi) \div 2, w)
         \o Bitslice_expand_ops(sched, key, ((lo + hi) \div 2) + 1, hi, w)

\* The events of RoundKey::from_key on chunk i: the assert, the copy of
\* key.len() bytes into every block, the conversion.
from_key_ops(key, i, w) ==
    << <<"branch", Len(chunk(key, i)) <= BLOCK_LEN>>,
       <<"index", "out", Len(chunk(key, i))>>,
       <<"index", "round_keys", i>> >>
    \o order_ops(to_bitslice_order_steps(w), 1)

RECURSIVE Bitslice_copy_key_ops(_, _, _)
Bitslice_copy_key_ops(key, i, w) ==
    IF i >= num_chunks(key) THEN << >>
    ELSE from_key_ops(key, i, w) \o Bitslice_copy_key_ops(key, i + 1, w)

\* The events of impl From<Key> for Schedule<Bitslice>, sched its result.
Bitslice_Schedule_ops(sched, key, w) ==
    Bitslice_copy_key_ops(key, 0, w)
    \o Bitslice_expand_ops(sched, key, len(key) \div 4, 4 * num_round_keys(key) - 1, w)

(* ------------------------------ aes/ops.rs ----------------------------- *)
\* The state representations R a Schedule<R> is instantiated with: the
\* reference Block and Bitslice<u16>, Bitslice<u32>, Bitslice<u64>.
Backends == {"Block", "u16", "u32", "u64"}

\* The number of bits of the word type of a bit-sliced representation.
width(R) == CASE R = "u16" -> 16 [] R = "u32" -> 32 [] R = "u64" -> 64

\* A state under transformation together with the record of the primitive
\* calls made on it: log lists the primitives in call order, keys the
\* indices (into the schedule) of the round keys handed to AddRoundKey.
Traced(state) == [state |-> state, log |-> << >>, keys |-> << >>, ops |-> << >>, ok |-> TRUE]

\* SubBytes::sub_bytes
sub_bytes(R, self) ==
    [self EXCEPT !.state = IF R = "Block" THEN Block_sub_bytes(@)
                           ELSE Bitslice_sub_bytes(@, width(R)),
                 !.log = Append(@, "SubBytes"),
                 !.ops = @ \o (IF R = "Block" THEN Block_sub_bytes_ops(self.state)
                               ELSE Bitslice_gates_ops(self.state, SUB_BYTES_GATES))]

\* SubBytes::inv_sub_bytes
inv_sub_bytes(R, self) ==
    [self EXCEPT !.state = IF R = "Block" THEN Block_inv_sub_bytes(@)
                           ELSE Bitslice_inv_sub_bytes(@, width(R)),
                 !.log = Append(@, "InvSubBytes"),
                 !.ops = @ \o (IF R = "Block" THEN Block_inv_sub_bytes_ops(self.state)
                               ELSE Bitslice_gates_ops(self.state, INV_SUB_BYTES_GATES))]

\* ShiftRows::shift_rows
shift_rows(R, self) ==
    [self EXCEPT !.state = IF R = "Block" THEN Block_shift_rows(@)
                           ELSE Bitslice_shift_rows(@, width(R)),
                 !.log = Append(@, "ShiftRows"),
                 !.ops = @ \o (IF R = "Block" THEN Block_shift_rows_ops(SHIFT_ROWS_SWAPS)
                               ELSE _shift_rows_ops(<<1, 2, 3>>, width(R)))]

\* ShiftRows::inv_shift_rows
inv_shift_rows(R, self) ==
    [self EXCEPT !.state = IF R = "Block" THEN Block_inv_shift_rows(@)
                           ELSE Bitslice_inv_shift_rows(@, width(R)),
                 !.log = Append(@, "InvShiftRows"),
                 !.ops = @ \o (IF R = "Block" THEN Block_shift_rows_ops(reverse(SHIFT_ROWS_SWAPS))
                               ELSE _shift_rows_ops(<<3, 2, 1>>, width(R)))]

\* MixColumns::mix_columns
mix_columns(R, self) ==
    [self EXCEPT !.state = IF R = "Block" THEN Block_mix_columns(@)
                           ELSE Bitslice_mix_columns(@, width(R)),
                 !.log = Append(@, "MixColumns"),
                 !.ops = @ \o (IF R = "Block" THEN Block_polyval_ops(self.state)
                               ELSE gf_polyval4_ops(width(R)))]

\* MixColumns::inv_mix_columns
inv_mix_columns(R, self) ==
    [self EXCEPT !.state = IF R = "Block" THEN Block_inv_mix_columns(@)
                           ELSE Bitslice_inv_mix_columns(@, width(R)),
                 !.log = Append(@, "InvMixColumns"),
                 !.ops = @ \o (IF R = "Block" THEN Block_polyval_ops(self.state)
                               ELSE gf_polyval4_ops(width(R)))]

\* AddRoundKey::add_round_key; rk is the reference &round_keys[r]
add_round_key(R, self, round_keys, r) ==
    [self EXCEPT !.state = IF R = "Block" THEN Block_add_round_key(@, round_keys[r + 1])
                           ELSE Bitslice_add_round_key(@, round_keys[r + 1]),
                 !.log = Append(@, "AddRoundKey"),
                 !.keys = Append(@, r),
                 !.ops = Append(@, <<"index", "round_keys", r>>)]

\* Aes::encrypt_round_last
encrypt_round_last(R, self, round_keys, r) ==
    add_round_key(R, shift_rows(R, sub_bytes(R, self)), round_keys, r)

\* A round of encryption that leaves MixColumns out.
encrypt_round_unmixed(R, self, round_keys, r) ==
    add_round_key(R, shift_rows(R, sub_bytes(R, self)), round_keys, r)

\* Aes::encrypt_round
encrypt_round(R, self, round_keys, r) ==
    add_round_key(R, mix_columns(R, shift_rows(R, sub_bytes(R, self))), round_keys, r)

\* Aes::decrypt_round_last
decrypt_round_last(R, self, round_keys, r) ==
    add_round_key(R, inv_sub_bytes(R, inv_shift_rows(R, self)), round_keys, r)

\* A round of decryption in the order of the equivalent inverse cipher:
\* InvMixColumns before AddRoundKey.
decrypt_round_mixed_first(R, self, round_keys, r) ==
    add_round_key(R, inv_mix_columns(R, inv_sub_bytes(R, inv_shift_rows(R, self))), round_keys, r)

\* Aes::decrypt_round
decrypt_round(R, self, round_keys, r) ==
    inv_mix_columns(R, add_round_key(R, inv_sub_bytes(R, inv_shift_rows(R, self)), round_keys, r))

\* for key in &round_keys[1..rounds-1], here the round keys lo..hi in
\* ascending order (the first half, then the second half)
RECURSIVE encrypt_loop(_, _, _, _, _)
encrypt_loop(R, self, round_keys, lo, hi) ==
    IF lo > hi THEN self
    ELSE IF lo = hi THEN encrypt_round(R, self, round_keys, lo)
    ELSE Let(encrypt_loop(R, self, round_keys, lo, (lo + hi) \div 2),
             LAMBDA half : encrypt_loop(R, half, round_keys, ((lo + hi) \div 2) + 1, hi))

\* for key in round_keys[1..rounds-1].iter().rev(), here the round keys
\* hi..lo in descending order (the upper half, then the lower half)
RECURSIVE decrypt_loop(_, _, _, _, _)
decrypt_loop(R, self, round_keys, lo, hi) ==
    IF lo > hi THEN self
    ELSE IF lo = hi THEN decrypt_round(R, self, round_keys, lo)
    ELSE Let(decrypt_loop(R, self, round_keys, ((lo + hi) \div 2) + 1, hi),
             LAMBDA half : decrypt_loop(R, half, round_keys, lo, (lo + hi) \div 2))

\* assert!(rounds == 11 || rounds == 13 || rounds == 15)
assert_rounds(round_keys) ==
    LET nrounds == Len(round_keys)
    IN nrounds = 11 \/ nrounds = 13 \/ nrounds = 15

\* Aes::encrypt; ok = FALSE is the failed assert!
encrypt(R, self, round_keys) ==
    LET nrounds == Len(round_keys)
    IN IF ~assert_rounds(round_keys) THEN [self EXCEPT !.ok = FALSE]
       ELSE encrypt_round_last(R,
                encrypt_loop(R, add_round_key(R, self, round_keys, 0), round_keys,
                             1, nrounds - 2),
                round_keys, nrounds - 1)

\* Aes::decrypt; ok = FALSE is the failed assert!
decrypt(R, self, round_keys) ==
    LET nrounds == Len(round_keys)
    IN IF ~assert_rounds(round_keys) THEN [self EXCEPT !.ok = FALSE]
       ELSE decrypt_round_last(R,
                decrypt_loop(R, add_round_key(R, self, round_keys, nrounds - 1),
                             round_keys, 1, nrounds - 2),
                round_keys, 0)

(* ------------------- lib.rs: BlockCipher for Schedule<R> --------------- *)
\* BlockRepr::NUM_BLOCKS; the reference backend handles one block per call.
NUM_BLOCKS(R) == IF R = "Block" THEN 1 ELSE num_blocks(width(R))

\* cmp::max
Max(a, b) == IF a > b THEN a ELSE b

\* cmp::min
Min(a, b) == IF a < b THEN a ELSE b

\* A conversion that takes the first block of any slice that has one.
Block_try_from_prefix(bytes) ==
    IF Len(bytes) < BLOCK_LEN
    THEN [ok |-> FALSE, err |-> 0, value |-> Block_default]
    ELSE [ok |-> TRUE, err |-> 0, value |-> SubSeq(bytes, 1, BLOCK_LEN)]

\* impl TryFrom<&[u8]> for Block
Block_try_from(bytes) ==
    IF Len(bytes) # BLOCK_LEN
    THEN [ok |-> FALSE, err |-> 0, value |-> Block_default]
    ELSE [ok |-> TRUE, err |-> 0, value |-> bytes]

\* BlockRepr::copy_to_slice for Bitslice<$T>: the slicing &bytes[..out.len()]
\* panics when out is longer than the representation.
copy_to_slice(self, out, w) ==
    Let(Bitslice_into_bytes(self, w), LAMBDA bytes :
        IF Len(out) > Len(bytes) THEN [ok |-> FALSE, out |-> out]
        ELSE [ok |-> TRUE, out |-> SubSeq(bytes, 1, Len(out))])

\* The outcome of a call that unwinds: nothing is returned, nothing written.
Panicked(bytes) ==
    [outcome |-> "panicked", ret |-> 0, written |-> 0, bytes |-> bytes,
     log |-> << >>, keys |-> << >>, ops |-> << >>]

\* A store that also clears what follows the bytes it was given to write.
Returned_clearing(bytes, out, n, t) ==
    [outcome |-> "returned", ret |-> n, written |-> Len(bytes),
     bytes |-> out \o Tabulate(LAMBDA i : 0, Len(bytes) - Len(out)),
     log |-> t.log, keys |-> t.keys, ops |-> t.ops]

\* The outcome of a call that returns n after storing out over bytes[..n_out].
Returned(bytes, out, n, t) ==
    [outcome |-> "returned", ret |-> n, written |-> Len(out),
     bytes |-> out \o SubSeq(bytes, Len(out) + 1, Len(bytes)),
     log |-> t.log, keys |-> t.keys, ops |-> t.ops]

\* impl<R> BlockCipher for Schedule<R> (aes/key.rs): encrypt_blocks; the
\* slicing &bytes[..len] panics when len is beyond the end of bytes.
Generic_encrypt_blocks(R, sched, bytes) ==
    LET n == Min(Len(bytes), NUM_BLOCKS(R) * BLOCK_LEN)
    IN IF n > Len(bytes) THEN Panicked(bytes)
       ELSE Let(Bitslice_try_from(SubSeq(bytes, 1, n), width(R)), LAMBDA block :
           IF ~block.ok THEN Panicked(bytes)
           ELSE Let(encrypt(R, [Traced(block.value) EXCEPT
                                   !.ops = Bitslice_try_from_ops(SubSeq(bytes, 1, n), width(R))],
                            sched), LAMBDA t :
                    IF ~t.ok THEN Panicked(bytes)
                    ELSE Let(copy_to_slice(t.state, SubSeq(bytes, 1, n), width(R)),
                             LAMBDA stored :
                                 IF ~stored.ok THEN Panicked(bytes)
                                 ELSE Returned(bytes, stored.out, n,
                                               [t EXCEPT !.ops = @ \o copy_to_slice_ops(
                                                            SubSeq(bytes, 1, n), width(R))]))))

\* impl<R> BlockCipher for Schedule<R> (aes/key.rs): decrypt_blocks
Generic_decrypt_blocks(R, sched, bytes) ==
    LET n == Min(Len(bytes), NUM_BLOCKS(R) * BLOCK_LEN)
    IN IF n > Len(bytes) THEN Panicked(bytes)
       ELSE Let(Bitslice_try_from(SubSeq(bytes, 1, n), width(R)), LAMBDA block :
           IF ~block.ok THEN Panicked(bytes)
           ELSE Let(decrypt(R, [Traced(block.value) EXCEPT
                                   !.ops = Bitslice_try_from_ops(SubSeq(bytes, 1, n), width(R))],
                            sched), LAMBDA t :
                    IF ~t.ok THEN Panicked(bytes)
                    ELSE Let(copy_to_slice(t.state, SubSeq(bytes, 1, n), width(R)),
                             LAMBDA stored :
                                 IF ~stored.ok THEN Panicked(bytes)
                                 ELSE Returned(bytes, stored.out, n,
                                               [t EXCEPT !.ops = @ \o copy_to_slice_ops(
                                                            SubSeq(bytes, 1, n), width(R))]))))

\* impl BlockCipher for Schedule<Block> (aes/simple.rs): encrypt_blocks
Block_encrypt_blocks(sched, bytes) ==
    IF Len(bytes) < BLOCK_LEN THEN Panicked(bytes)
    ELSE Let(Block_try_from(SubSeq(bytes, 1, BLOCK_LEN)), LAMBDA block :
             IF ~block.ok THEN Panicked(bytes)
             ELSE Let(encrypt("Block", Traced(block.value), sched), LAMBDA t :
                      IF ~t.ok THEN Panicked(bytes)
                      ELSE Returned(bytes, t.state, 16, t)))

\* impl BlockCipher for Schedule<Block> (aes/simple.rs): decrypt_blocks
Block_decrypt_blocks(sched, bytes) ==
    IF Len(bytes) < BLOCK_LEN THEN Panicked(bytes)
    ELSE Let(Block_try_from(SubSeq(bytes, 1, BLOCK_LEN)), LAMBDA block :
             IF ~block.ok THEN Panicked(bytes)
             ELSE Let(decrypt("Block", Traced(block.value), sched), LAMBDA t :
                      IF ~t.ok THEN Panicked(bytes)
                      ELSE Returned(bytes, t.state, 16, t)))

\* BlockCipher::encrypt_blocks
encrypt_blocks(R, sched, bytes) ==
    IF R = "Block" THEN Block_encrypt_blocks(sched, bytes)
    ELSE Generic_encrypt_blocks(R, sched, bytes)

\* BlockCipher::decrypt_blocks
decrypt_blocks(R, sched, bytes) ==
    IF R = "Block" THEN Block_decrypt_blocks(sched, bytes)
    ELSE Generic_decrypt_blocks(R, sched, bytes)

\* impl ParallelBlockCipher for Schedule (bitslice/key.rs)
PARALLEL_BLOCKS(R) == num_blocks(width(R))

\* ParallelBlockCipher::bytes_encrypted
bytes_encrypted(R, length) == Min(length, PARALLEL_BLOCKS(R))

\* impl From<Key> for Schedule<R>
Schedule_from(R, key) ==
    IF R = "Block" THEN Block_Schedule_from(key) ELSE Bitslice_Schedule_from(key, width(R))

(* ======================= the program as a state machine ================= *)
\* A run is what tests/openssl.rs and the round_trip test of aes/simple.rs
\* do: build a Key from bytes, expand it into a Schedule<R>, then push a
\* buffer through encrypt_blocks and decrypt_blocks, either with the caller
\* loop of encrypt_all_ct / decrypt_all_ct or with one direct call each.
VARIABLES
    R,          \* the state representation the schedule is instantiated with
    rng,        \* the pattern rng.fill_bytes draws the key and the input from
    key_bytes,  \* the bytes handed to Key::from_bytes
    key,        \* the result of Key::from_bytes
    sched,      \* the Schedule<R>: the sequence of round keys
    input,      \* the buffer as it was handed to the caller
    buf,        \* the buffer being transformed in place
    mode,       \* "encdec": encrypt then decrypt; "decenc": the reverse
    caller,     \* "loop": encrypt_all_ct / decrypt_all_ct; "single": one call
    pc,         \* the position of the caller
    phase,      \* 1 during the first pass over the buffer, 2 during the second
    cursor,     \* the offset in buf at which the remainder starts
    calls,      \* calls of {en,de}crypt_blocks made in this phase
    last,       \* the outcome of the most recent call
    before,     \* buf as it was when the most recent call was made
    touched,    \* per byte of buf: how often a call of this phase stored to it
    threads,    \* the threads sharing sched, each looping over its own shard
    dut         \* the batch a primitive is applied to on its own, as the backend holds it

vars == << R, rng, key_bytes, key, sched, input, buf, mode, caller, pc, phase,
           cursor, calls, last, before, touched, threads, dut >>

\* Key material: seed 0 is 00 01 02 .. as in KNOWN_ANSWER_TESTS.
KeyBytes(seed, n) == Tabulate(LAMBDA i : (i + seed * (6 * i + 43)) % 256, n)

\* Buffer contents: seed 0 starts with the block 00 11 22 .. ff.
BufBytes(seed, n) == Tabulate(LAMBDA i : (17 * i + seed * (30 * i + 113)) % 256, n)

\* The bytes one call of the backend handles.
Batch(r) == NUM_BLOCKS(r) * BLOCK_LEN

NoCall == [outcome |-> "none", op |-> "none", arg |-> 0, ret |-> 0,
           log |-> << >>, keys |-> << >>, ops |-> << >>]

Zeros(n) == Tabulate(LAMBDA i : 0, n)

Init ==
    \E r \in Backends, seed \in 0..MaxSeed, ku \in 0..MaxKeyUnits :
        /\ R = r
        /\ rng = seed
        /\ key_bytes = KeyBytes(seed, 8 * ku)
        /\ key = [variant |-> "None", bytes |-> << >>]
        /\ sched = << >>
        /\ input = << >>
        /\ buf = << >>
        /\ mode = "encdec"
        /\ caller = "loop"
        /\ pc = "start"
        /\ phase = 1
        /\ cursor = 0
        /\ calls = 0
        /\ last = NoCall
        /\ before = << >>
        /\ touched = << >>
        /\ threads = << >>
        /\ dut = << >>

\* Key::from_bytes(&key); the callers unwrap the result.
KeyFromBytes ==
    /\ pc = "start"
    /\ key' = from_bytes(key_bytes)
    /\ pc' = IF key'.variant = "Err" THEN "key_err" ELSE "have_key"
    /\ UNCHANGED << dut, threads, R, rng, key_bytes, sched, input, buf, mode, caller, phase, cursor,
                    calls, last, before, touched >>

\* let ct: Schedule<R> = key.into()
ScheduleFrom ==
    /\ pc = "have_key"
    /\ sched' = Schedule_from(R, key)
    /\ pc' = "scheduled"
    /\ UNCHANGED << dut, threads, R, rng, key_bytes, key, input, buf, mode, caller, phase, cursor,
                    calls, last, before, touched >>

\* rng.fill_bytes(&mut input); ct_output.copy_from_slice(&input): the caller
\* settles on a buffer, on the order of the two passes and on how it calls.
FillInput ==
    /\ pc = "scheduled"
    /\ \E h \in 0..MaxHalfBatches, m \in {"encdec", "decenc"}, c \in {"loop", "single"} :
            /\ input' = BufBytes(rng, h * (Batch(R) \div 2))
            /\ mode' = m
            /\ caller' = c
    /\ buf' = input'
    /\ before' = input'
    /\ touched' = Zeros(Len(input'))
    /\ pc' = "ready"
    /\ UNCHANGED << dut, threads, R, rng, key_bytes, key, sched, phase, cursor, calls, last >>

\* The operation of the current pass.
Op == IF (mode = "encdec") = (phase = 1) THEN "encrypt" ELSE "decrypt"

\* The caller is about to make a call: the loop while the remainder is
\* non-empty, the direct caller once.
CallDue == pc = "ready" /\ IF caller = "loop" THEN cursor < Len(buf) ELSE calls = 0

\* The effect of a call with result res on the slice buf[cursor..].
Called(res, op) ==
    /\ buf' = SubSeq(buf, 1, cursor) \o res.bytes
    /\ last' = [outcome |-> res.outcome, op |-> op, arg |-> Len(buf) - cursor,
                ret |-> res.ret, log |-> res.log, keys |-> res.keys, ops |-> res.ops]
    /\ before' = buf
    /\ calls' = calls + 1
    /\ touched' = Tabulate(LAMBDA i : touched[i + 1] +
                      (IF i >= cursor /\ i < cursor + res.written THEN 1 ELSE 0), Len(buf))
    /\ pc' = res.outcome
    /\ UNCHANGED << dut, threads, R, rng, key_bytes, key, sched, input, mode, caller, phase, cursor >>

\* let adv = ct.encrypt_blocks(cursor)
EncryptBlocks ==
    /\ CallDue
    /\ Op = "encrypt"
    /\ Called(encrypt_blocks(R, sched, SubSeq(buf, cursor + 1, Len(buf))), "encrypt")

\* let adv = ct.decrypt_blocks(cursor)
DecryptBlocks ==
    /\ CallDue
    /\ Op = "decrypt"
    /\ Called(decrypt_blocks(R, sched, SubSeq(buf, cursor + 1, Len(buf))), "decrypt")

\* cursor = &mut cursor[adv..]; slicing past the end panics
Advance ==
    /\ pc = "returned"
    /\ caller = "loop"
    /\ IF last.ret > Len(buf) - cursor
       THEN pc' = "panicked" /\ cursor' = cursor
       ELSE pc' = "ready" /\ cursor' = cursor + last.ret
    /\ UNCHANGED << dut, threads, R, rng, key_bytes, key, sched, input, buf, mode, caller, phase,
                    calls, last, before, touched >>

\* The pass over the buffer is over: the loop found the remainder empty, or
\* the direct call has returned.
PassOver ==
    IF caller = "loop" THEN pc = "ready" /\ cursor >= Len(buf) ELSE pc = "returned"

\* The second pass starts on the whole buffer.
SecondPass ==
    /\ PassOver
    /\ phase = 1
    /\ phase' = 2
    /\ cursor' = 0
    /\ calls' = 0
    /\ touched' = Zeros(Len(buf))
    /\ pc' = "ready"
    /\ UNCHANGED << dut, threads, R, rng, key_bytes, key, sched, input, buf, mode, caller, last, before >>

\* Both passes are over.
Finish ==
    /\ PassOver
    /\ phase = 2
    /\ pc' = "done"
    /\ UNCHANGED << dut, threads, R, rng, key_bytes, key, sched, input, buf, mode, caller, phase,
                    cursor, calls, last, before, touched >>

Next ==
    \/ KeyFromBytes
    \/ ScheduleFrom
    \/ FillInput
    \/ EncryptBlocks
    \/ DecryptBlocks
    \/ Advance
    \/ SecondPass
    \/ Finish

Spec == Init /\ [][Next]_vars

(* ================== several threads sharing one schedule ================= *)
\* A thread handed a slice that starts at the start of the buffer whatever
\* its shard is.
Thread_from_start(lo, hi) ==
    [lo |-> 0, hi |-> hi, cursor |-> 0, pc |-> "ready", local |-> << >>, ret |-> 0]

\* A thread that was handed ct: &Schedule<R> and the shard buf[lo..hi] as
\* its own &mut [u8], about to enter encrypt_all_ct / decrypt_all_ct.
Thread(lo, hi) ==
    [lo |-> lo, hi |-> hi, cursor |-> lo, pc |-> "ready", local |-> << >>, ret |-> 0]

\* The key the threads' schedule is built from: 16, 24 or 32 bytes, by seed.
SharedKey(seed) == KeyBytes(seed, 16 + 8 * (seed % 3))

\* The schedule has been built from a valid key; the buffer has been split
\* at a cut into two shards, one per thread.
SharedInit ==
    \E r \in Backends, seed \in 0..MaxSeed :
        Let(Schedule_from(r, from_bytes(SharedKey(seed))), LAMBDA ct :
            \E m \in {"encdec", "decenc"}, h \in 0..MaxHalfBatches :
                \E cut \in 0..h :
                    /\ R = r
                    /\ rng = seed
                    /\ key_bytes = SharedKey(seed)
                    /\ key = from_bytes(key_bytes)
                    /\ sched = ct
                    /\ input = BufBytes(seed, h * (Batch(r) \div 2))
                    /\ buf = input
                    /\ mode = m
                    /\ caller = "loop"
                    /\ pc = "shared"
                    /\ phase = 1
                    /\ cursor = 0
                    /\ calls = 0
                    /\ last = NoCall
                    /\ before = input
                    /\ touched = Zeros(Len(input))
                    /\ threads = << Thread(0, cut * (Batch(r) \div 2)),
                                    Thread(cut * (Batch(r) \div 2), h * (Batch(r) \div 2)) >>
                    /\ dut = << >>)

\* while !cursor.is_empty() { ct.encrypt_blocks(cursor) ..: the call reads
\* its argument, the rest of the thread's shard.
ThreadLoad(t) ==
    /\ pc = "shared"
    /\ threads[t].pc = "ready"
    /\ threads[t].cursor < threads[t].hi
    /\ threads' = [threads EXCEPT ![t].pc = "loaded",
                                  ![t].local = SubSeq(buf, threads[t].cursor + 1, threads[t].hi)]
    /\ UNCHANGED << dut, R, rng, key_bytes, key, sched, input, buf, mode, caller, pc, phase,
                    cursor, calls, last, before, touched >>

\* The bytes a call stores, over the buffer as it is at the time of the store.
Stored(b, at, res) ==
    SubSeq(b, 1, at) \o SubSeq(res.bytes, 1, res.written)
                     \o SubSeq(b, at + res.written + 1, Len(b))

\* .. let adv = ct.encrypt_blocks(cursor): the call transforms what it read
\* with the shared schedule, stores the outcome and returns (or unwinds).
ThreadStore(t) ==
    /\ pc = "shared"
    /\ threads[t].pc = "loaded"
    /\ Let(IF Op = "encrypt" THEN encrypt_blocks(R, sched, threads[t].local)
                             ELSE decrypt_blocks(R, sched, threads[t].local), LAMBDA res :
            /\ buf' = Stored(buf, threads[t].cursor, res)
            /\ touched' = Tabulate(LAMBDA i : touched[i + 1] +
                              (IF i >= threads[t].cursor /\ i < threads[t].cursor + res.written
                               THEN 1 ELSE 0), Len(buf))
            /\ threads' = [threads EXCEPT ![t].pc = res.outcome, ![t].ret = res.ret,
                                          ![t].local = << >>])
    /\ UNCHANGED << dut, R, rng, key_bytes, key, sched, input, mode, caller, pc, phase,
                    cursor, calls, last, before >>

\* .. cursor = &mut cursor[adv..]; slicing past the end of the shard panics
ThreadAdvance(t) ==
    /\ pc = "shared"
    /\ threads[t].pc = "returned"
    /\ threads' = IF threads[t].ret > threads[t].hi - threads[t].cursor
                  THEN [threads EXCEPT ![t].pc = "panicked"]
                  ELSE [threads EXCEPT ![t].pc = "ready", ![t].cursor = @ + threads[t].ret]
    /\ UNCHANGED << dut, R, rng, key_bytes, key, sched, input, buf, mode, caller, pc, phase,
                    cursor, calls, last, before, touched >>

\* The loop finds the rest of the shard empty and the thread is over.
ThreadExit(t) ==
    /\ pc = "shared"
    /\ threads[t].pc = "ready"
    /\ threads[t].cursor >= threads[t].hi
    /\ threads' = [threads EXCEPT ![t].pc = "done"]
    /\ UNCHANGED << dut, R, rng, key_bytes, key, sched, input, buf, mode, caller, pc, phase,
                    cursor, calls, last, before, touched >>

SharedNext ==
    \E t \in DOMAIN threads :
        \/ ThreadLoad(t)
        \/ ThreadStore(t)
        \/ ThreadAdvance(t)
        \/ ThreadExit(t)

SharedSpec == SharedInit /\ [][SharedNext]_vars

(* ================ the primitives applied on their own ================== *)
\* block.into_iter().collect(): the bytes the state d of the backend r holds
Collect(r, d) == IF r = "Block" THEN d ELSE Bitslice_into_bytes(d, width(r))

\* let mut buf = vec![0; num_blocks * aes::BLOCK_LEN]; input.read_exact(&mut
\* buf); let mut dut = B::try_from(&buf).ok().unwrap()
PrimInit ==
    \E r \in Backends, seed \in 0..MaxSeed :
        /\ R = r
        /\ rng = seed
        /\ key_bytes = << >>
        /\ key = [variant |-> "None", bytes |-> << >>]
        /\ sched = << >>
        /\ input = BufBytes(seed, Batch(r))
        /\ buf = input
        /\ mode = "encdec"
        /\ caller = "single"
        /\ pc = "dut"
        /\ phase = 1
        /\ cursor = 0
        /\ calls = 0
        /\ last = NoCall
        /\ before = input
        /\ touched = Zeros(Len(input))
        /\ threads = << >>
        /\ dut = IF r = "Block" THEN Block_try_from(input).value
                 ELSE Bitslice_try_from(input, width(r)).value

\* test_fn(dut); let actual: Vec<u8> = dut.into_iter().collect(): the
\* primitive has left t; buf holds the bytes of dut, before those it held.
Applied(t) ==
    /\ pc = "dut"
    /\ calls < MaxOps
    /\ dut' = t.state
    /\ buf' = Collect(R, t.state)
    /\ before' = buf
    /\ calls' = calls + 1
    /\ last' = [NoCall EXCEPT !.op = t.log[1], !.log = t.log, !.ops = t.ops]
    /\ UNCHANGED << R, rng, key_bytes, key, sched, input, mode, caller, pc, phase,
                    cursor, touched, threads >>

\* B::sub_bytes(&mut dut)
SubBytes == Applied(sub_bytes(R, Traced(dut)))

\* B::inv_sub_bytes(&mut dut)
InvSubBytes == Applied(inv_sub_bytes(R, Traced(dut)))

\* B::shift_rows(&mut dut)
ShiftRows == Applied(shift_rows(R, Traced(dut)))

\* B::inv_shift_rows(&mut dut)
InvShiftRows == Applied(inv_shift_rows(R, Traced(dut)))

\* B::mix_columns(&mut dut)
MixColumns == Applied(mix_columns(R, Traced(dut)))

\* B::inv_mix_columns(&mut dut)
InvMixColumns == Applied(inv_mix_columns(R, Traced(dut)))

PrimNext ==
    \/ SubBytes
    \/ InvSubBytes
    \/ ShiftRows
    \/ InvShiftRows
    \/ MixColumns
    \/ InvMixColumns

PrimSpec == PrimInit /\ [][PrimNext]_vars

(* ============================ the properties ============================ *)
\* The 16-byte block number j of b counted from offset at.
BlockAt(b, at, j) == SubSeq(b, at + BLOCK_LEN * j + 1, at + BLOCK_LEN * j + BLOCK_LEN)

\* A call has returned and the caller has not yet moved on.
JustReturned == pc = "returned"

\* The bytes of b the call that has just returned was given to process.
Processed(b) == SubSeq(b, cursor + 1, cursor + last.ret)

(* ---- C1 ---- *)
\* C1: round trip.  For every backend and key size, the second pass undoes
\* the first on every batch: decrypt_blocks restores what encrypt_blocks was
\* given (mode "encdec"), and encrypt_blocks restores what decrypt_blocks was
\* given (mode "decenc").
C1_RoundTrip ==
    /\ (JustReturned /\ phase = 2) => Processed(buf) = Processed(input)
    /\ pc = "done" => buf = input

\* Two batches of Bitslice<u64> were decrypted, then encrypted again.
C1_Witness ==
    /\ pc = "done" /\ mode = "decenc" /\ caller = "loop" /\ R = "u64"
    /\ Len(input) = 2 * Batch(R) /\ calls = 2 /\ last.op = "encrypt"
    /\ before # input

(* ---- C2 ---- *)
\* The reference backend's result for one block under the schedule ref.
Reference(op, ref, block) ==
    IF op = "encrypt" THEN Block_encrypt_blocks(ref, block).bytes
    ELSE Block_decrypt_blocks(ref, block).bytes

KAT_PLAIN == <<0, 17, 34, 51, 68, 85, 102, 119, 136, 153, 170, 187, 204, 221, 238, 255>>

KAT_KEY(n) == Tabulate(LAMBDA i : i, n)

KAT_CIPHER(n) ==
    CASE n = 16 -> <<105, 196, 224, 216, 106, 123, 4, 48, 216, 205, 183, 128, 112, 180, 197, 90>>
      [] n = 24 -> <<221, 169, 124, 164, 134, 76, 223, 224, 110, 175, 112, 160, 236, 13, 113, 145>>
      [] n = 32 -> <<142, 162, 183, 202, 81, 103, 69, 191, 234, 252, 73, 144, 75, 73, 96, 137>>

\* The first call of a pass has returned, under a known-answer key, on a
\* buffer that began with the known-answer plaintext.
KatCall(n) ==
    /\ JustReturned /\ mode = "encdec" /\ cursor = 0
    /\ Len(key_bytes) = n /\ key_bytes = KAT_KEY(n)
    /\ BlockAt(input, 0, 0) = KAT_PLAIN

Ascending(n) == Tabulate(LAMBDA i : i, n)

\* <<n-1, ..., 1, 0>>
Descending(n) == Tabulate(LAMBDA i : n - 1 - i, n)

\* The steps of encrypt for n round keys, as the claim lists them.
EncryptSteps(n) ==
    Tabulate(LAMBDA i :
        IF i = 0 THEN "AddRoundKey"
        ELSE IF i <= 4 * (n - 2)
             THEN <<"SubBytes", "ShiftRows", "MixColumns", "AddRoundKey">>[((i - 1) % 4) + 1]
             ELSE <<"SubBytes", "ShiftRows", "AddRoundKey">>[i - 4 * (n - 2)],
        1 + 4 * (n - 2) + 3)

\* How often step occurs in log.
Count(log, step) == Cardinality({i \in 1..Len(log) : log[i] = step})

\* C4: the order of encrypt.  A call of encrypt_blocks under a schedule of N
\* round keys performs AddRoundKey(rk[0]), then N-2 times SubBytes, ShiftRows,
\* MixColumns, AddRoundKey(rk[r]) for r = 1 .. N-2 ascending, then SubBytes,
\* ShiftRows, AddRoundKey(rk[N-1]); each round key is used once and
\* MixColumns is applied N-2 times.
C4_EncryptOrder ==
    (JustReturned /\ last.op = "encrypt") =>
        /\ Len(sched) \in {11, 13, 15}
        /\ last.log = EncryptSteps(Len(sched))
        /\ last.keys = Ascending(Len(sched))
        /\ Count(last.log, "MixColumns") = Len(sched) - 2

\* An encryption under 13 round keys has returned.
C4_Witness ==
    /\ JustReturned /\ last.op = "encrypt" /\ Len(sched) = 13 /\ R = "u16"
    /\ Len(last.log) = 48

(* ---- C5 ---- *)
\* The steps of decrypt for n round keys, as the claim lists them.
DecryptSteps(n) ==
    Tabulate(LAMBDA i :
        IF i = 0 THEN "AddRoundKey"
        ELSE IF i <= 4 * (n - 2)
             THEN <<"InvShiftRows", "InvSubBytes", "AddRoundKey", "InvMixColumns">>[((i - 1) % 4) + 1]
             ELSE <<"InvShiftRows", "InvSubBytes", "AddRoundKey">>[i - 4 * (n - 2)],
        1 + 4 * (n - 2) + 3)

\* C5: the order of decrypt.  A call of decrypt_blocks under a schedule of N
\* round keys performs AddRoundKey(rk[N-1]), then for r = N-2 down to 1
\* InvShiftRows, InvSubBytes, AddRoundKey(rk[r]), InvMixColumns, then
\* InvShiftRows, InvSubBytes, AddRoundKey(rk[0]): the round keys are those
\* of the schedule the caller holds, the one encrypt is given, each used
\* once, in reverse order.
C5_DecryptOrder ==
    (JustReturned /\ last.op = "decrypt") =>
        /\ Len(sched) \in {11, 13, 15}
        /\ last.log = DecryptSteps(Len(sched))
        /\ last.keys = Descending(Len(sched))

\* A decryption under 15 round keys has returned.
C5_Witness ==
    /\ JustReturned /\ last.op = "decrypt" /\ Len(sched) = 15 /\ R = "Block"
    /\ Len(last.log) = 56

(* ---- C6 ---- *)
\* C6: the byte count.  Every call of encrypt_blocks or decrypt_blocks, on
\* whatever buffer, processes min(|buf|, NUM_BLOCKS * 16) bytes and returns
\* that count.
C6_ReturnsMin ==
    last.outcome # "none" =>
        /\ last.outcome = "returned"
        /\ last.ret = Min(last.arg, Batch(R))

WholeBatches ==
    /\ pc \notin {"start", "have_key", "key_err", "scheduled"}
    /\ caller = "loop"
    /\ Len(buf) > 0
    /\ Len(buf) % Batch(R) = 0

\* Every 16-byte block of the buffer has been stored to exactly once.
EachBlockOnce == \A i \in 1..Len(buf) : touched[i] = 1

\* The guards of the caller's steps: a call is due, a returned call is
\* followed by the advance of the cursor, or the pass is over (and the
\* second pass or the end follows).
LoopCanStep == CallDue \/ (JustReturned /\ caller = "loop") \/ PassOver

\* C8: the caller loop terminates.  On a buffer of a positive multiple of
\* the batch size no call fails and the loop is never stuck before the end;
\* every call returns the batch size (> 0) and stays inside the buffer, the
\* cursor is the batches done so far, and when the loop leaves, exactly
\* len/batch calls have stored every block once.
C8_LoopTerminates ==
    WholeBatches =>
        /\ pc # "panicked"
        /\ pc = "done" \/ LoopCanStep
        /\ JustReturned =>
                /\ last.ret = Batch(R) /\ last.ret > 0
                /\ cursor + last.ret = calls * Batch(R)
        /\ pc = "ready" => cursor = calls * Batch(R)
        /\ calls * Batch(R) <= Len(buf)
        /\ PassOver => calls * Batch(R) = Len(buf) /\ EachBlockOnce

\* The decrypting loop has left after two calls on two batches.
C8_Witness ==
    /\ WholeBatches /\ PassOver /\ Op = "decrypt" /\ calls = 2
    /\ Len(buf) = 2 * Batch(R) /\ R = "u32"

(* ---- C9 ---- *)
\* What follows offset n in b.
From(b, n) == SubSeq(b, n + 1, Len(b))

\* A step in which a call returns.
CallReturns == pc = "ready" /\ pc' = "returned"

\* C9: the frame of a call.  When a call returns n, the bytes after the n
\* it was given to process, the bytes before them and all round keys of the
\* schedule are as they were before the call.
C9_Frame ==
    [][CallReturns =>
            /\ From(buf', cursor + last'.ret) = From(buf, cursor + last'.ret)
            /\ SubSeq(buf', 1, cursor) = SubSeq(buf, 1, cursor)
            /\ Len(buf') = Len(buf)
            /\ sched' = sched]_vars

\* A direct call on two batches has returned and left the second alone.
C9_Witness ==
    /\ JustReturned /\ caller = "single" /\ Len(buf) = 2 * Batch(R)
    /\ last.ret = Batch(R) /\ R = "u16" /\ Processed(buf) # Processed(before)
    /\ From(buf, last.ret) = From(before, last.ret)

(* ---- C10 ---- *)
\* C10: Key::from_bytes.  A slice of 16, 24 or 32 bytes gives the Aes128,
\* Aes192 or Aes256 variant holding exactly those bytes; every other length,
\* 0 included, gives the error value.
C10_FromBytes ==
    pc # "start" =>
        /\ Len(key_bytes) = 16 => key = [variant |-> "Aes128", bytes |-> key_bytes]
        /\ Len(key_bytes) = 24 => key = [variant |-> "Aes192", bytes |-> key_bytes]
        /\ Len(key_bytes) = 32 => key = [variant |-> "Aes256", bytes |-> key_bytes]
        /\ Len(key_bytes) \notin {16, 24, 32} => key.variant = "Err" /\ pc = "key_err"
        /\ Len(key_bytes) \in {16, 24, 32} => pc # "key_err"

\* The empty slice was refused.
C10_Witness == pc = "key_err" /\ Len(key_bytes) = 0 /\ key.variant = "Err"
(* ---- C11 ---- *)
\* The schedule exists: the key has been expanded.
Scheduled == pc \notin {"start", "have_key", "key_err"}

\* The word a probe writes into a schedule: every bit set.
ProbeWord == IF R = "Block" THEN <<255, 255, 255, 255>>
             ELSE Tabulate(LAMBDA i : first_col(width(R)), 8)

\* The schedule after one more key-expansion write, of word n.
AfterSetWord(n) ==
    IF R = "Block" THEN Block_set_word(sched, n, ProbeWord)
    ELSE Bitslice_set_word(sched, n, ProbeWord, width(R))

\* C11: the number of round keys.  A schedule built from a key of 16, 24
\* or 32 bytes has 11, 13 or 15 round keys, which is rounds + 1; a set_word
\* on any of its words leaves that number alone, as does every call of
\* encrypt_blocks and decrypt_blocks; the assertion of encrypt and decrypt
\* holds of it.
C11_RoundKeyCount ==
    Scheduled =>
        /\ Len(sched) = rounds(key) + 1
        /\ Len(sched) = num_round_keys(key)
        /\ Len(key_bytes) = 16 => Len(sched) = 11 /\ rounds(key) = 10
        /\ Len(key_bytes) = 24 => Len(sched) = 13 /\ rounds(key) = 12
        /\ Len(key_bytes) = 32 => Len(sched) = 15 /\ rounds(key) = 14
        /\ assert_rounds(sched)
        /\ pc = "scheduled" =>
                \A n \in 0..(4 * Len(sched) - 1) : Len(AfterSetWord(n)) = Len(sched)

\* A 192-bit schedule of thirteen round keys has been through both passes.
C11_Witness ==
    /\ pc = "done" /\ Len(key_bytes) = 24 /\ Len(sched) = 13 /\ calls = 2
    /\ R = "u32"

(* ---- C12 ---- *)
\* The second run: the same backend, key length and buffer length, with the
\* key bytes and the data bytes of another pattern.
OtherSeed == (rng + 1) % (MaxSeed + 1)

OtherKey == from_bytes(KeyBytes(OtherSeed, Len(key_bytes)))

\* The bit-sliced schedules of all runs, by width (16, 32, 64), pattern and
\* key length (16, 24, 32).
ALL_SCHEDULES ==
    Tabulate(LAMBDA b :
        Tabulate(LAMBDA sd :
            Tabulate(LAMBDA ku :
                Bitslice_Schedule_from(from_bytes(KeyBytes(sd, 8 * (ku + 2))), 16 * (2^b)),
                3), MaxSeed + 1), 3)

OtherSchedule ==
    ALL_SCHEDULES[CASE R = "u16" -> 1 [] R = "u32" -> 2 [] R = "u64" -> 3]
                 [OtherSeed + 1][(Len(key_bytes) \div 8) - 1]

\* What the second run hands to the call the first run has just made.
OtherBytes == From(BufBytes(OtherSeed, Len(buf)), cursor)

OtherCall ==
    IF last.op = "encrypt" THEN Generic_encrypt_blocks(R, OtherSchedule, OtherBytes)
    ELSE Generic_decrypt_blocks(R, OtherSchedule, OtherBytes)

\* The two runs differ in every key byte and in the data.
OtherRunDiffers ==
    /\ \A i \in 1..Len(key_bytes) : OtherKey.bytes[i] # key_bytes[i]
    /\ Len(OtherBytes) = last.arg
    /\ last.arg > 0 => OtherBytes # From(before, cursor)

\* C12: constant-time discipline.  On the bit-sliced path two runs with the
\* same key length and buffer length but other key and data bytes execute
\* the same events: key expansion makes the same branches, indexings,
\* shifts and rotations, and so does every call of encrypt_blocks and
\* decrypt_blocks, which also ends the same way.
C12_ConstantTime ==
    (R # "Block" /\ Scheduled) =>
        /\ pc = "scheduled" =>
                Bitslice_Schedule_ops(sched, key, width(R))
                    = Bitslice_Schedule_ops(OtherSchedule, OtherKey, width(R))
        /\ pc \in {"returned", "panicked"} /\ last.arg = Len(buf) - cursor =>
                /\ OtherRunDiffers
                /\ Let(OtherCall, LAMBDA other :
                       /\ other.ops = last.ops
                       /\ other.outcome = last.outcome
                       /\ other.ret = last.ret)

\* A decryption of two blocks by Bitslice<u32> under a 256-bit key has
\* returned, the other run's data being different.
C12_Witness ==
    /\ R = "u32" /\ pc = "returned" /\ last.op = "decrypt" /\ Len(key_bytes) = 32
    /\ OtherRunDiffers /\ Len(last.ops) > 1000
    /\ OtherCall.bytes # buf

(* --------------------------------- C13 ---------------------------------- *)
\* encrypt_all_ct / decrypt_all_ct run by one thread over b[at..hi], to the
\* end of the loop or to the call that unwinds.
RECURSIVE RunShard(_, _, _)
RunShard(b, at, hi) ==
    IF at >= hi THEN b
    ELSE Let(IF Op = "encrypt" THEN encrypt_blocks(R, sched, SubSeq(b, at + 1, hi))
                               ELSE decrypt_blocks(R, sched, SubSeq(b, at + 1, hi)), LAMBDA res :
             IF res.outcome # "returned" THEN b
             ELSE IF res.ret > hi - at THEN Stored(b, at, res)
             ELSE RunShard(Stored(b, at, res), at + res.ret, hi))

\* The shards processed one after the other, in the order of the threads.
RECURSIVE Sequentially(_, _)
Sequentially(b, t) ==
    IF t > Len(threads) THEN b
    ELSE Sequentially(RunShard(b, threads[t].lo, threads[t].hi), t + 1)

\* Every thread has left its loop or has unwound.
AllOver == pc = "shared" /\ \A t \in DOMAIN threads : threads[t].pc \in {"done", "panicked"}

\* C13: when threads that share one schedule each run the caller loop over
\* their own shard of the buffer, no step of any interleaving modifies the
\* schedule, no byte of the buffer is stored to twice, and once all threads
\* are over the buffer is the one obtained by running the loops over the
\* shards one after the other.
C13_SharedSchedule ==
    /\ [](AllOver => buf = Sequentially(input, 1))
    /\ [](pc = "shared" => \A i \in 1..Len(buf) : touched[i] <= 1)
    /\ [][sched' = sched]_vars

\* Two threads have each transformed a whole batch of their own.
C13_Witness ==
    /\ AllOver
    /\ R = "u16"
    /\ Len(key_bytes) = 24
    /\ Op = "decrypt"
    /\ sched = Schedule_from(R, key)
    /\ \A t \in DOMAIN threads : threads[t].pc = "done" /\ threads[t].hi - threads[t].lo = 16
    /\ \A i \in 1..Len(buf) : touched[i] = 1
    /\ buf # input
    /\ buf = Sequentially(input, 1)

(* --------------------------------- C14 ---------------------------------- *)
\* tests::key_expansion, EXPANDED_KEYS[0]: the key and round key 10.
FIPS_KEY == <<43, 126, 21, 22, 40, 174, 210, 166, 171, 247, 21, 136, 9, 207, 79, 60>>

FIPS_ROUND_KEY_10 ==
    <<208, 20, 249, 168, 201, 238, 37, 137, 225, 63, 12, 200, 182, 99, 12, 166>>

\* The lanes of round key i of the schedule ks of the backend r, as blocks of
\* 16 bytes: all w/16 lanes of a bit-sliced round key, the block of a
\* reference one.
Lanes(r, ks, i) ==
    IF r = "Block" THEN << ks[i] >>
    ELSE Let(Bitslice_into_bytes(ks[i], width(r)), LAMBDA bytes :
             Tabulate(LAMBDA j : BlockAt(bytes, 0, j), NUM_BLOCKS(r)))

\* Every lane of every round key of ks is the round key of ref.
SameRoundKeys(r, ks, ref) ==
    /\ Len(ks) = Len(ref)
    /\ \A i \in 1..Len(ks) :
           Let(Lanes(r, ks, i), LAMBDA lanes :
               /\ Len(lanes) = width(r) \div 16
               /\ \A j \in 1..(width(r) \div 16) : lanes[j] = ref[i])

C15_BytesEncrypted ==
    (pc = "returned" /\ R # "Block") => bytes_encrypted(R, last.arg) = last.ret

(* --------------------------------- C16 ---------------------------------- *)
\* The caller has filled a buffer and has not yet made a call.
Filled == pc = "ready" /\ phase = 1 /\ calls = 0

\* R::try_from(s), and the bytes the value it yields holds.
TryFrom(s) ==
    IF R = "Block"
    THEN Let(Block_try_from(s), LAMBDA res :
             [ok |-> res.ok, err |-> res.err, holds |-> res.value])
    ELSE Let(Bitslice_try_from(s, width(R)), LAMBDA res :
             [ok |-> res.ok, err |-> res.err,
              holds |-> IF res.ok THEN Bitslice_into_bytes(res.value, width(R)) ELSE << >>])

\* The length R::try_from requires: 16 for Block, 8 * sizeof(W) for Bitslice<W>.
Required == IF R = "Block" THEN 16 ELSE 8 * (width(R) \div 8)

\* C16: for every slice s of the caller's buffer that starts at its start
\* (lengths 0 up to two batches), R::try_from(s) succeeds exactly when s has
\* the required length, 16 bytes for Block and 8 * sizeof(W) = 16, 32 or 64
\* for Bitslice<W>; a refusal by Bitslice<W> carries that length; and a
\* value it yields holds exactly the bytes of s.
C16_TryFromLength ==
    Filled =>
        \A n \in 0..Len(buf) :
            Let(TryFrom(SubSeq(buf, 1, n)), LAMBDA res :
                /\ res.ok <=> n = Required
                /\ Required \in {16, 32, 64}
                /\ (~res.ok /\ R # "Block") => res.err = Required
                /\ res.ok => res.holds = SubSeq(buf, 1, n))

\* Bitslice<u32> is offered slices of 0 to 64 bytes: it takes the one of 32
\* bytes and refuses those of 31, 33 and 64.
C16_Witness ==
    /\ Filled
    /\ R = "u32"
    /\ Len(buf) = 64
    /\ TryFrom(SubSeq(buf, 1, 32)).ok
    /\ TryFrom(SubSeq(buf, 1, 32)).holds = SubSeq(buf, 1, 32)
    /\ \A n \in {31, 33, 64} : ~TryFrom(SubSeq(buf, 1, n)).ok /\ TryFrom(SubSeq(buf, 1, n)).err = 32

(* --------------------------------- C17 ---------------------------------- *)
\* The batch the call that has just returned stored, as the state it held.
StoredBlocks == Bitslice_from_bytes(SubSeq(buf, cursor + 1, cursor + Batch(R)), width(R))

\* C17: when a call of a bit-sliced backend has returned, copy_to_slice of
\* the state it held completes for a destination of exactly NUM_BLOCKS * 16
\* bytes and for the caller's whole slice, which is at least as long, and
\* the first NUM_BLOCKS * 16 bytes of the destination then are the stored
\* blocks.
C17_CopyToSlice ==
    (pc = "returned" /\ R # "Block") =>
        \A n \in {Batch(R), Len(buf) - cursor} :
            Let(copy_to_slice(StoredBlocks, SubSeq(before, cursor + 1, cursor + n), width(R)),
                LAMBDA res :
                    /\ res.ok
                    /\ Len(res.out) = n
                    /\ SubSeq(res.out, 1, Batch(R)) = SubSeq(buf, cursor + 1, cursor + Batch(R)))

(* --------------------------------- C18 ---------------------------------- *)
\* The product of the polynomials a and b over GF(2), as the set of the
\* exponents of its terms.
PolyProduct(a, b) ==
    {k \in 0..14 : Cardinality({i \in BitsOf(a) : k - i \in BitsOf(b)}) % 2 = 1}

\* p reduced by x^8 + x^4 + x^3 + x + 1, the terms x^k, .., x^8 one by one:
\* x^k = x^(k-4) + x^(k-5) + x^(k-7) + x^(k-8).
RECURSIVE PolyReduce(_, _)
PolyReduce(p, k) ==
    IF k < 8 THEN p
    ELSE IF k \in p THEN PolyReduce(WXor(p, {k, k - 4, k - 5, k - 7, k - 8}), k - 1)
    ELSE PolyReduce(p, k - 1)

\* The bytes a sequence holds.
Bytes(b) == {b[i] : i \in 1..Len(b)}

\* C18: once the reference schedule is built from a key, the product of each
\* byte of the key (and of 0x53) with each byte 0..255 is their polynomial
\* product reduced by x^8 + x^4 + x^3 + x + 1 (0x1b), 0x53 * 0xCA being 1;
\* and inverse_table() returns 256 entries, the first 0, entry x with
\* x * table[x] = 1 for x in 1..255, the entries 1..255 being the nonzero
\* bytes, each once.
C18_Gf256 ==
    (pc = "scheduled" /\ R = "Block") =>
        /\ \A a \in Bytes(key_bytes) \cup {83}, b \in 0..255 :
               Element_mul(a, b) = ByteOf(PolyReduce(PolyProduct(a, b), 14))
        /\ Element_mul(83, 202) = 1
        /\ Let(inverse_table, LAMBDA table :
               /\ table.outcome = "returned"
               /\ Len(table.ret) = 256
               /\ table.ret[0 + 1] = 0
               /\ \A x \in 1..255 : Element_mul(x, table.ret[x + 1]) = 1
               /\ {table.ret[x + 1] : x \in 1..255} = 1..255)

\* The reference schedule of a 32-byte key: 32 different key bytes are
\* multiplied, and the inverse of 0x53 is 0xCA.
C18_Witness ==
    /\ pc = "scheduled"
    /\ R = "Block"
    /\ Cardinality(Bytes(key_bytes)) = 32
    /\ inverse_table.outcome = "returned"
    /\ inverse_table.ret[83 + 1] = 202
    /\ Element_mul(2, 128) = 27

(* --------------------------------- C19 ---------------------------------- *)
\* b.rotate_left(n) on u8.
RotL8(b, n) == ((b * (2^n)) % 256) + (b \div (2^(8 - n)))

\* The Rijndael S-box value of x: the affine transform of the inverse of x
\* in GF(2^8), the inverse of 0 taken as 0.
Rijndael(x, table) ==
    Let(table[x + 1], LAMBDA b :
        Xor(Xor(Xor(b, RotL8(b, 1)), Xor(RotL8(b, 2), RotL8(b, 3))), Xor(RotL8(b, 4), 99)))

\* A batch of n bytes in which the byte at each position is x for j = x - c
\* (mod 256), c depending on the position and on the seed: over j = 0..255
\* every position holds every byte once, next to different neighbours for
\* different seeds.
Pattern(j, n) == Tabulate(LAMBDA p : (j + (2 * rng + 1) * p + (p \div 16) * rng) % 256, n)

\* sub_bytes applied to the batch b by the bit-sliced backend of the state.
SubBytesOf(b) ==
    Bitslice_into_bytes(Bitslice_sub_bytes(Bitslice_from_bytes(b, width(R)), width(R)), width(R))

\* C19: in a bit-sliced state (built after the schedule of a 16-byte key,
\* which sub_bytes does not read), sub_bytes replaces the byte x at each of the
\* w positions, for each x of 0..255 and whatever the other positions hold,
\* by the affine transform of the inverse of x in GF(2^8) (0x63 for x = 0),
\* which is also the entry SBOX[x] of the reference table.
C19_SubBytes ==
    (pc = "scheduled" /\ R # "Block" /\ Len(key_bytes) = 16) =>
        Let(inverse_table.ret, LAMBDA table :
            /\ Rijndael(0, table) = 99
            /\ \A j \in 0..255 :
                   Let(Pattern(j, Batch(R)), LAMBDA b :
                       Let(SubBytesOf(b), LAMBDA out :
                           /\ Len(out) = Batch(R)
                           /\ \A p \in 1..Batch(R) :
                                  /\ out[p] = Rijndael(b[p], table)
                                  /\ out[p] = SBOX[b[p] + 1])))

\* Bitslice<u64>, seed 1: the 64 positions hold 64 different bytes at once,
\* 0x53 at the last one, which sub_bytes turns into 0xed.
C19_Witness ==
    /\ pc = "scheduled"
    /\ R = "u64"
    /\ Len(key_bytes) = 16
    /\ rng = 1
    /\ \E j \in 0..255 :
           /\ Pattern(j, 64)[64] = 83
           /\ Cardinality(Bytes(Pattern(j, 64))) = 64
           /\ SubBytesOf(Pattern(j, 64))[64] = 237
    /\ Rijndael(83, inverse_table.ret) = 237

(* --------------------------------- C20 ---------------------------------- *)
\* shift_rows applied by the backend of the state to one batch of bytes.
ShiftRowsOf(b) ==
    IF R = "Block" THEN shift_rows(R, Traced(b)).state
    ELSE Bitslice_into_bytes(
             shift_rows(R, Traced(Bitslice_from_bytes(b, width(R)))).state, width(R))

\* The blocks iota + 16 * lane, one per lane, each given in row-major order
\* shifted by the sequence rows gives the places of.
RowMajorBatch(rows) ==
    Tabulate(LAMBDA n : from_row_major(
                 Tabulate(LAMBDA i : rows[i + 1] + 16 * (n \div 16), 16))[(n % 16) + 1],
             Batch(R))

\* C20: for the first batch of the caller's buffer, in every lane, the byte
\* shift_rows leaves at row r and column c is the byte that was at row r
\* and column (c + r) mod 4, row 0 staying as it was; and the blocks given
\* row-major as 0..15 become 0 1 2 3, 5 6 7 4, 10 11 8 9, 15 12 13 14.
C20_ShiftRows ==
    (Filled /\ Len(buf) >= Batch(R)) =>
        /\ Let(ShiftRowsOf(SubSeq(buf, 1, Batch(R))), LAMBDA out :
               /\ Len(out) = Batch(R)
               /\ \A lane \in 0..(NUM_BLOCKS(R) - 1), r \in 0..3, c \in 0..3 :
                      /\ out[16 * lane + idx(r, c) + 1]
                            = buf[16 * lane + idx(r, (c + r) % 4) + 1]
                      /\ r = 0 => out[16 * lane + idx(r, c) + 1] = buf[16 * lane + idx(r, c) + 1])
        /\ ShiftRowsOf(RowMajorBatch(<<0, 1, 2, 3, 4, 5, 6, 7, 8, 9, 10, 11, 12, 13, 14, 15>>))
              = RowMajorBatch(<<0, 1, 2, 3, 5, 6, 7, 4, 10, 11, 8, 9, 15, 12, 13, 14>>)

\* Bitslice<u64> shifts the rows of four lanes at once, the last lane's row
\* 3 among them.
C20_Witness ==
    /\ Filled
    /\ R = "u64"
    /\ Len(buf) = 128
    /\ ShiftRowsOf(SubSeq(buf, 1, 64))[48 + idx(3, 0) + 1] = buf[48 + idx(3, 3) + 1]
    /\ ShiftRowsOf(SubSeq(buf, 1, 64))[48 + idx(3, 0) + 1] # buf[48 + idx(3, 0) + 1]
    /\ ShiftRowsOf(SubSeq(buf, 1, 64)) # SubSeq(buf, 1, 64)

(* --------------------------------- C21 ---------------------------------- *)
\* The product of a and b in GF(2^8), as the reduced product of polynomials.
GfMul(a, b) == ByteOf(PolyReduce(PolyProduct(a, b), 14))

\* k[1]*in(r,c) + k[2]*in(r+1,c) + k[3]*in(r+2,c) + k[4]*in(r+3,c) in the
\* block of b that starts at offset at, rows taken mod 4.
ColumnPoly(b, at, k, r, c) ==
    Xor(Xor(GfMul(k[1], b[at + idx(r % 4, c) + 1]),
            GfMul(k[2], b[at + idx((r + 1) % 4, c) + 1])),
        Xor(GfMul(k[3], b[at + idx((r + 2) % 4, c) + 1]),
            GfMul(k[4], b[at + idx((r + 3) % 4, c) + 1])))

\* Every byte of the batch out is the polynomial with coefficients k of the
\* column of the batch b it is in.
IsColumnPoly(out, b, k) ==
    /\ Len(out) = Len(b)
    /\ \A lane \in 0..((Len(b) \div 16) - 1), r \in 0..3, c \in 0..3 :
           out[16 * lane + idx(r, c) + 1] = ColumnPoly(b, 16 * lane, k, r, c)

\* A batch of the backend of the state in which every column is col.
Columns(col) == Tabulate(LAMBDA n : col[(n % 4) + 1], Batch(R))

\* mix_columns applied by the backend of the state to the batch b.
MixColumnsOf(b) ==
    Collect(R, mix_columns(R, Traced(IF R = "Block" THEN b
                                        ELSE Bitslice_from_bytes(b, width(R)))).state)

\* C21: when mix_columns has been applied to a batch, every byte of every lane
\* is 2*in(r,c) + 3*in(r+1,c) + in(r+2,c) + in(r+3,c) of its column as it
\* was, in GF(2^8); when inv_mix_columns has, the same with 14, 11, 13, 9;
\* and columns db 13 53 45 become 8e 4d a1 bc, columns 01 01 01 01 stay.
C21_MixColumns ==
    pc = "dut" =>
        /\ last.op = "MixColumns" => IsColumnPoly(buf, before, <<2, 3, 1, 1>>)
        /\ last.op = "InvMixColumns" => IsColumnPoly(buf, before, <<14, 11, 13, 9>>)
        /\ calls = 0 =>
               /\ MixColumnsOf(Columns(<<219, 19, 83, 69>>)) = Columns(<<142, 77, 161, 188>>)
               /\ MixColumnsOf(Columns(<<1, 1, 1, 1>>)) = Columns(<<1, 1, 1, 1>>)

\* Bitslice<u64> has mixed the columns of four lanes, after another
\* primitive, and inverted the mixing of the columns of another batch.
C21_Witness ==
    /\ pc = "dut"
    /\ R = "u64"
    /\ calls = 2
    /\ last.op = "MixColumns"
    /\ Len(buf) = 64
    /\ buf # before
    /\ buf[64] = ColumnPoly(before, 48, <<2, 3, 1, 1>>, 3, 3)

(* --------------------------------- C22 ---------------------------------- *)
\* The batch under test after sub_bytes then inv_sub_bytes, after shift_rows
\* then inv_shift_rows, and after mix_columns then inv_mix_columns.
RoundTrips ==
    << inv_sub_bytes(R, sub_bytes(R, Traced(dut))).state,
       inv_shift_rows(R, shift_rows(R, Traced(dut))).state,
       inv_mix_columns(R, mix_columns(R, Traced(dut))).state >>

\* The bytes of the batch under test after the inverse of the primitive that
\* was applied last, when that was a forward primitive.
Undone ==
    CASE last.op = "SubBytes" -> Collect(R, inv_sub_bytes(R, Traced(dut)).state)
      [] last.op = "ShiftRows" -> Collect(R, inv_shift_rows(R, Traced(dut)).state)
      [] last.op = "MixColumns" -> Collect(R, inv_mix_columns(R, Traced(dut)).state)
      [] OTHER -> before

\* C22: for each backend and each of the pairs (sub_bytes, inv_sub_bytes),
\* (shift_rows, inv_shift_rows), (mix_columns, inv_mix_columns), the forward
\* primitive followed by the inverse returns the state it was applied to:
\* from the batch under test, and from the batch the last forward primitive
\* was applied to.
C22_InverseUndoes ==
    pc = "dut" =>
        /\ \A k \in 1..3 : RoundTrips[k] = dut
        /\ Undone = before

\* Bitslice<u32> has mixed the columns of two lanes, which changed them, and
\* the inverse gives the two lanes back.
C22_Witness ==
    /\ pc = "dut"
    /\ R = "u32"
    /\ calls = 1
    /\ last.op = "MixColumns"
    /\ buf # before
    /\ Collect(R, dut) = buf
    /\ Undone = before
    /\ before = input

(* --------------------------------- C23 ---------------------------------- *)
\* The byte string of w bytes that repeats the bytes of the batch of the state.
Stretch(w) == Tabulate(LAMBDA n : buf[(n % Len(buf)) + 1], w)

\* The widths a state gives inputs to: its own, and all three where the
\* batch is fresh or is not packed.
WidthsHere == IF R = "Block" \/ calls = 0 THEN {16, 32, 64} ELSE {width(R)}

\* (0..n).map(|x| x as u8)
iota(n) == Tabulate(LAMBDA x : x, n)

\* The eight words of w bits that the w bytes of s are, little-endian.
Words(s, w) == Tabulate(LAMBDA i : from_le_bytes(s, i * (w \div 8), w), 8)

\* s survives to_bitslice_order followed by to_byte_order, as words and as bytes.
RoundTripped(s, w) ==
    /\ to_byte_order(to_bitslice_order(Words(s, w), w), w) = Words(s, w)
    /\ Bitslice_into_bytes(Bitslice_from_bytes(s, w), w) = s

\* C23: for every width w in {16, 32, 64} and every byte string s of exactly
\* w bytes, converting s to a bit-sliced state (to_bitslice_order) and back
\* to bytes (to_byte_order) yields s.
C23_PackUnpack ==
    pc = "dut" =>
        /\ \A w \in WidthsHere : RoundTripped(Stretch(w), w)
        /\ calls = 0 => \A w \in {16, 32, 64} : RoundTripped(iota(w), w)
        /\ R # "Block" => Bitslice_from_bytes(buf, width(R)) = dut

\* 64 bytes changed by a primitive are packed into words that differ from
\* the plain little-endian ones, and unpacked to the same 64 bytes.
C23_Witness ==
    /\ pc = "dut"
    /\ R = "u64"
    /\ calls = 1
    /\ buf # before
    /\ Len(buf) = 64
    /\ Bitslice_from_bytes(buf, 64) # Words(buf, 64)
    /\ Bitslice_into_bytes(Bitslice_from_bytes(buf, 64), 64) = buf

(* --------------------------------- C24 ---------------------------------- *)
\* Bitslice::<W>::bit_to_byte_index, for W of w bits
bit_to_byte_index(n, w) ==
    LET block == n % num_blocks(w)
        byte == n \div num_blocks(w)
        col == byte % 4
        row == byte \div 4
    IN 16 * block + 4 * col + row

\* Bitslice::<W>::bit_indexes().take(n)
bit_indexes(n, w) == Tabulate(LAMBDA k : bit_to_byte_index(k, w), n)

\* Bitslice::get: the byte held in bit n of the eight words
Bitslice_get(self, n) == ByteOf({i \in 0..7 : n \in self[i + 1]})

\* The number of the input byte that bit position n holds, B blocks to a word.
ByteNumber(n, B) == 16 * (n % B) + 4 * ((n \div B) % 4) + (n \div (4 * B))

\* Bit position n of word i of the packed s holds bit i of byte ByteNumber(n)
\* of s, for every position and word.
InBitOrder(s, w) ==
    Let(Bitslice_from_bytes(s, w), LAMBDA packed :
        /\ \A n \in 0..(w - 1), i \in 0..7 :
               (n \in packed[i + 1]) <=> (i \in BitsOf(s[ByteNumber(n, w \div 16) + 1]))
        /\ \A n \in 0..(w - 1) : Bitslice_get(packed, n) = s[bit_to_byte_index(n, w) + 1])

\* C24: for every width w in {16, 32, 64} with B = w/16 blocks, bit position
\* n of word i of the packed state holds bit i of input byte number
\* 16*(n mod B) + 4*((n div B) mod 4) + (n div (4*B)); the byte order starts
\* 0,4,8,12,1,5 for width 16, 0,16,4,20,8,24,12,28,1,17 for width 32 and
\* 0,16,32,48,4,20,36,52,8 for width 64.
C24_BitOrder ==
    pc = "dut" =>
        /\ \A w \in WidthsHere : InBitOrder(Stretch(w), w)
        /\ calls = 0 =>
               /\ \A w \in {16, 32, 64} :
                      /\ InBitOrder(iota(w), w)
                      /\ \A n \in 0..(w - 1) : bit_to_byte_index(n, w) = ByteNumber(n, w \div 16)
               /\ bit_indexes(9, 16) = <<0, 4, 8, 12, 1, 5, 9, 13, 2>>
               /\ bit_indexes(10, 32) = <<0, 16, 4, 20, 8, 24, 12, 28, 1, 17>>
               /\ bit_indexes(9, 64) = <<0, 16, 32, 48, 4, 20, 36, 52, 8>>

\* Two lanes are packed in 32-bit words: bit positions 0 and 1 hold the first
\* bytes of the two lanes, which differ, and position 2 holds byte 4.
C24_Witness ==
    /\ pc = "dut"
    /\ R = "u32"
    /\ calls = 1
    /\ Bitslice_get(dut, 0) = buf[1]
    /\ Bitslice_get(dut, 1) = buf[17]
    /\ Bitslice_get(dut, 2) = buf[5]
    /\ buf[1] # buf[17]
    /\ buf[1] # buf[5]

(* --------------------------------- C25 ---------------------------------- *)
\* Bitslice::<W>::byte_to_bit_index
byte_to_bit_index(n) ==
    LET block == n \div BLOCK_LEN
        byte == n % BLOCK_LEN
        col == byte \div 4
        row == byte % 4
    IN 16 * row + 4 * col + block

\* The byte at (block, row, col) of the batch of the state.
ByteAt(block, row, col) == buf[16 * block + 4 * col + row + 1]

\* The bit position row * row_shift + col * col_shift + block.
ShiftIndex(block, row, col, w) == row * row_shift(w) + col * col_shift(w) + block

\* The bit position 16 * row + 4 * col + block.
BitIndex(block, row, col) == 16 * row + 4 * col + block

\* The (block, row, col) of a batch of B blocks.
Places(B) == (0..(B - 1)) \X (0..3) \X (0..3)

\* In each of the eight words of the batch under test, bit at(place) is
\* inside the word and holds the byte at place.
StoredAt(at(_)) ==
    \A place \in Places(num_blocks(width(R))) :
        /\ at(place) < width(R)
        /\ Bitslice_get(dut, at(place)) = ByteAt(place[1], place[2], place[3])

HighWindows(n, w) == {p \in 0..(w - 1) : (p \div n) % 2 = 1}

\* out is <<lo, hi>> with the high windows of lo and the low windows of hi
\* exchanged, pair by pair.
Exchanged(out, lo, hi, n, w) ==
    /\ out[1] = {p \in lo : p \notin HighWindows(n, w)} \cup {p + n : p \in {q \in hi : q \notin HighWindows(n, w)}}
    /\ out[2] = {p \in hi : p \in HighWindows(n, w)} \cup {p - n : p \in {q \in lo : q \in HighWindows(n, w)}}

\* swap_move on lo and hi of w bits exchanges the windows, and a second
\* application restores lo and hi.
SwapMoveTwice(lo, hi, log2_n, w) ==
    Let(swap_move(lo, hi, log2_n, w), LAMBDA once :
        /\ Exchanged(once, lo, hi, 2^log2_n, w)
        /\ swap_move(once[1], once[2], log2_n, w) = <<lo, hi>>)

\* C26: for every width w in {16, 32, 64}, words lo and hi and every log2_n
\* in 0..5 whose window n = 2^log2_n is smaller than w, swap_move applied
\* twice restores lo and hi, and one application exchanges the high n-bit
\* window of each window pair of lo with the low n-bit window of the same
\* pair of hi.
C26_SwapMove ==
    pc = "dut" =>
        /\ calls = 0 =>
               \A w \in {16, 32, 64} :
                   Let(Words(Stretch(w), w), LAMBDA words :
                       \A i \in 1..8, j \in 1..8, log2_n \in 0..5 :
                           (i < j /\ 2^log2_n < w) => SwapMoveTwice(words[i], words[j], log2_n, w))
        /\ R # "Block" =>
               \A i \in 1..7, log2_n \in 0..5 :
                   2^log2_n < width(R) => SwapMoveTwice(dut[i], dut[i + 1], log2_n, width(R))

\* Two different words of the batch under test have windows of 4 bits
\* exchanged: both words change, and the exchange is undone by a second one.
C26_Witness ==
    /\ pc = "dut"
    /\ R = "u32"
    /\ calls = 1
    /\ dut[1] # dut[2]
    /\ swap_move(dut[1], dut[2], 2, 32)[1] # dut[1]
    /\ swap_move(dut[1], dut[2], 2, 32)[2] # dut[2]
    /\ SwapMoveTwice(dut[1], dut[2], 2, 32)

(* --------------------------------- C27 ---------------------------------- *)
\* The bit positions of column c in a word of w bits.
ColumnBits(c, w) == {p \in 0..(w - 1) : (p \div (w \div 16)) % 4 = c}

\* The round key written by the probe: the last one of the schedule, which
\* has bits in all four columns.
FullWord == sched[Len(sched)]

\* after is the schedule with column n mod 4 of round key n div 4 set to
\* column 0 of word and nothing else changed, and word(n) reads column 0 of
\* word back with the other columns zero.
OnlyColumn(after, n, word, w) ==
    /\ \A k \in 1..Len(sched) : k # (n \div 4) + 1 => after[k] = sched[k]
    /\ \A i \in 1..8 :
           /\ after[(n \div 4) + 1][i] \ ColumnBits(n % 4, w) = sched[(n \div 4) + 1][i] \ ColumnBits(n % 4, w)
           /\ after[(n \div 4) + 1][i] \cap ColumnBits(n % 4, w)
                  = {p + (n % 4) * (w \div 16) : p \in word[i] \cap ColumnBits(0, w)}
           /\ Bitslice_word(after, n, w)[i] = word[i] \cap ColumnBits(0, w)

\* The bytes of column c of every lane of the round key rk.
ColumnBytes(rk, c, w) ==
    Let(Bitslice_into_bytes(rk, w), LAMBDA bytes :
        Tabulate(LAMBDA k : bytes[16 * (k \div 4) + 4 * c + (k % 4) + 1], 4 * (w \div 16)))

\* C27: in the bit-sliced schedule, set_word(n, w) changes only column
\* n mod 4 of round key n div 4, in every lane, setting it to column 0 of w;
\* the other columns of that round key and the other round keys are
\* unchanged, whatever w holds outside column 0; afterwards word(n) returns
\* a round key whose column 0 is column 0 of w and whose other columns are
\* zero.
C27_SetWord ==
    (pc = "scheduled" /\ R # "Block") =>
        /\ \A n \in 0..(4 * Len(sched) - 1) :
               OnlyColumn(Bitslice_set_word(sched, n, FullWord, width(R)), n, FullWord, width(R))
        /\ ColumnBytes(Bitslice_set_word(sched, 5, FullWord, width(R))[2], 1, width(R))
              = ColumnBytes(FullWord, 0, width(R))

\* Word 5 of a 192-bit schedule of Bitslice<u32> is overwritten with a round
\* key that has bits outside column 0: round key 1 changes, word 5 reads
\* back as column 0 of what was written, which is not all of it.
C27_Witness ==
    /\ pc = "scheduled"
    /\ R = "u32"
    /\ Len(key_bytes) = 24
    /\ Bitslice_set_word(sched, 5, FullWord, 32)[2] # sched[2]
    /\ Bitslice_word(Bitslice_set_word(sched, 5, FullWord, 32), 5, 32) # FullWord
    /\ \E i \in 1..8 : FullWord[i] \cap ColumnBits(0, 32) # {}
    /\ \E i \in 1..8 : FullWord[i] \ ColumnBits(0, 32) # {}

(* --------------------------------- C28 ---------------------------------- *)
\* The word of w bits x rotated right by k bits.
RotatedRight(x, k, w) == {((p + w) - k) % w : p \in x}

\* The word of the schedule that key expansion rotates first: the last word
\* of the key itself.
LastKeyWord == Bitslice_word(sched, (Len(key_bytes) \div 4) - 1, width(R))

\* Every plane of the rotated LastKeyWord is the plane rotated right by k bits.
RotatesBy(k) ==
    \A i \in 1..8 : rot_word(LastKeyWord, width(R))[i] = RotatedRight(LastKeyWord[i], k, width(R))

\* The bytes <<a0, a1, a2, a3>> of every lane of col become <<a1, a2, a3, a0>>.
RotWord(col) == Tabulate(LAMBDA k : col[4 * (k \div 4) + ((k + 1) % 4) + 1], Len(col))

\* C28, as amended: rot_word, the RotWord step of bit-sliced key expansion,
\* rotates each of the eight bit-plane words right by row_shift
\* (= 4*num_blocks) bits, which turns the column <<a0, a1, a2, a3>> of every
\* lane into <<a1, a2, a3, a0>>; the first expanded word of the schedule is
\* made of the word rotated so.
C28_RotWord ==
    (pc = "scheduled" /\ R # "Block") =>
        /\ row_shift(width(R)) = 4 * num_blocks(width(R))
        /\ RotatesBy(4 * num_blocks(width(R)))
        /\ ColumnBytes(rot_word(LastKeyWord, width(R)), 0, width(R))
              = RotWord(ColumnBytes(LastKeyWord, 0, width(R)))
        /\ Bitslice_word(sched, Len(key_bytes) \div 4, width(R))
              = Bitslice_word(
                    << Bitslice_bitxor(
                           Bitslice_bitxor(Bitslice_sub_word(rot_word(LastKeyWord, width(R)), width(R)),
                                           RCON(width(R))[1]),
                           Bitslice_word(sched, 0, width(R))) >>,
                    0, width(R))

\* C28 as stated: rot_word rotates each of the eight bit-plane words right
\* by col_shift (= num_blocks) bits.
C28_AsStated ==
    (pc = "scheduled" /\ R # "Block") =>
        /\ col_shift(width(R)) = num_blocks(width(R))
        /\ RotatesBy(num_blocks(width(R)))

\* The last word of a 256-bit key of Bitslice<u64> is rotated: the planes
\* move by 16 bits, not by 4, and the bytes of each lane's column rotate.
C28_Witness ==
    /\ pc = "scheduled"
    /\ R = "u64"
    /\ Len(key_bytes) = 32
    /\ rot_word(LastKeyWord, 64) # LastKeyWord
    /\ RotatesBy(16)
    /\ ~RotatesBy(4)
    /\ ColumnBytes(LastKeyWord, 0, 64)[1] # ColumnBytes(LastKeyWord, 0, 64)[2]

(* --------------------------------- C29 ---------------------------------- *)
\* The ten standard round constants.
StandardRc == <<1, 2, 4, 8, 16, 32, 64, 128, 27, 54>>

\* A batch of w bytes in which every column of every block is <<rc, 0, 0, 0>>.
RcColumns(rc, w) == Tabulate(LAMBDA n : IF n % 4 = 0 THEN rc ELSE 0, w)

\* C29: for each of the ten standard round constants rc, from_rc(rc) is a
\* round key in which every column of every block is [rc, 0, 0, 0]: the
\* row-0 byte of each column is rc and the bytes of rows 1 to 3 are zero;
\* RCON, which the key expansion has used, holds these ten round keys.
C29_FromRc ==
    (pc = "scheduled" /\ R # "Block") =>
        /\ ROUND_CONSTANTS = StandardRc
        /\ \A k \in 1..10 :
               /\ Bitslice_into_bytes(from_rc(StandardRc[k], width(R)), width(R))
                      = RcColumns(StandardRc[k], width(R))
               /\ RCON(width(R))[k] = from_rc(StandardRc[k], width(R))
               /\ \A n \in 0..(width(R) - 1) :
                      Bitslice_get(from_rc(StandardRc[k], width(R)), n)
                          = IF n < 4 * num_blocks(width(R)) THEN StandardRc[k] ELSE 0

\* The round constant 0x1b of a 128-bit schedule of Bitslice<u32>: it is the
\* first byte of both lanes and of their other columns, and row 1 is zero.
C29_Witness ==
    /\ pc = "scheduled"
    /\ R = "u32"
    /\ Len(key_bytes) = 16
    /\ Bitslice_into_bytes(RCON(32)[9], 32)[1] = 27
    /\ Bitslice_into_bytes(RCON(32)[9], 32)[17] = 27
    /\ Bitslice_into_bytes(RCON(32)[9], 32)[21] = 27
    /\ Bitslice_into_bytes(RCON(32)[9], 32)[2] = 0

(* --------------------------------- C30 ---------------------------------- *)
\* The byte whose bit i is the XOR of the bits of b that coefficient i of
\* the table entry m lists.
Apply(m, b) == ByteOf({i \in 0..7 : Cardinality(m[i + 1] \cap BitsOf(b)) % 2 = 1})

\* C30: for every up_to <= 256, every k < up_to and every byte b, bit i of
\* the GF(2^8) product Element(k) * Element(b) is the XOR of the bits of b
\* listed in coefficient i of multiplication_table(up_to)[k]; entry 0 has
\* all coefficients empty and entry 1 is the identity.
C30_MultiplicationTable ==
    (pc = "dut" /\ calls = 0 /\ R = "Block") =>
        Let(multiplication_table(256), LAMBDA table :
            /\ Len(table) = 256
            /\ table[1] = << {}, {}, {}, {}, {}, {}, {}, {} >>
            /\ table[2] = << {0}, {1}, {2}, {3}, {4}, {5}, {6}, {7} >>
            /\ \A k \in 0..255, b \in 0..255 : Apply(table[k + 1], b) = Element_mul(k, b)
            /\ \A up_to \in 1..256 : multiplication_table(up_to) = SubSeq(table, 1, up_to)
            /\ \A b \in 1..Len(buf) : \A k \in 0..255 :
                   GfMul(k, buf[b]) = Apply(table[k + 1], buf[b]))

\* The entries for 3 and for 255 applied to the first byte of a random block
\* give its products, which are not the byte itself.
C30_Witness ==
    /\ pc = "dut"
    /\ calls = 0
    /\ R = "Block"
    /\ Apply(multiplication_table(4)[4], buf[1]) = Element_mul(3, buf[1])
    /\ Apply(multiplication_table(4)[4], buf[1]) # buf[1]
    /\ Apply(multiplication_table(256)[256], buf[1]) = Element_mul(255, buf[1])
    /\ Apply(multiplication_table(256)[256], buf[1]) # buf[1]

====
